---- MODULE Spec2Model ----
(***************************************************************************)
(* Verification model of forml: the flow graph path algebra                *)
(* (forml/flow/graph/view.py) and the generation level of the asset        *)
(* directory (forml/runtime/asset/directory/generation.py).                *)
(***************************************************************************)
EXTENDS Integers, Sequences, FiniteSets, TLC

(* Bound of the flow graph model: the number of workers created and
   subscriptions made on top of the initial flow. *)
MaxEdits == 1

VARIABLES
    nodes,   \* sequence of workers, nodes[n] = [szin, szout]
    subs,    \* set of subscriptions [pub, idx, node, port]
    p,       \* the path object the client holds (NoPath when none)
    res,     \* outcome of the operation that produced this state
    edits,   \* number of workers created and subscriptions made so far
    pc,      \* "compose": no path yet, "hold": p constructed, "done": p operated on
    tag,     \* the generation tag the client holds
    key,     \* the generation key the client holds
    registry,\* the registry: listed projects, lineages and stored generation tags
    out,     \* outcome of the asset operation that produced this state
    descriptor, \* the project descriptor the runner works on
    run,     \* outcome of the runner operation that produced this state
    subject, \* the DSL column the client holds
    parsed,  \* outcome of the DSL operation that produced this state
    folding  \* the crossvalidated composition in progress: position, locals and calls made

flowVars == <<nodes, subs, p, res, edits, pc>>
assetVars == <<tag, key, registry, out>>
runVars == <<descriptor, run>>
dslVars == <<subject, parsed>>
foldVars == <<folding>>
vars == <<nodes, subs, p, res, edits, pc, tag, key, registry, out, descriptor, run, subject, parsed,
          folding>>

(***************************************************************************)
(* Ports and subscriptions (forml.flow.graph.port, forml.flow.graph.node). *)
(***************************************************************************)
None == 0

Apply(i) == [kind |-> "Apply", index |-> i]
Train == [kind |-> "Train", index |-> 0]
Label == [kind |-> "Label", index |-> 0]

IsApply(port) == port.kind = "Apply"
IsSink(port) == port.kind \in {"Train", "Label"}

Subscription(pub, idx, node, port) ==
    [pub |-> pub, idx |-> idx, node |-> node, port |-> port]

\* node.output: all the subscriptions published by node n in graph g
output(g, n) == {s \in g : s.pub = n}

\* {s.node for p in head.output for s in p if isinstance(s.port, port.Apply)}
ApplySubscribers(g, n) == {s.node : s \in {x \in output(g, n) : IsApply(x.port)}}

\* the sizes a worker is created with
Sizes == {1, 2}

\* ports of a worker with szin apply inputs
Ports(szin) == {Apply(i) : i \in 0..(szin - 1)} \cup {Train, Label}

RECURSIVE ApplyReach(_, _, _)
\* nodes reachable from the frontier over apply subscriptions (frontier included)
ApplyReach(g, frontier, seen) ==
    IF frontier \subseteq seen THEN seen
    ELSE ApplyReach(g, UNION {ApplySubscribers(g, n) : n \in frontier},
                    seen \cup frontier)

\* Constraint checks of subscribe: the apply port is unoccupied and the
\* publisher is not already a transitive apply subscriber of the target.
CanSubscribe(g, pub, idx, node, port, prevent) ==
    /\ IsApply(port) => ~ \E s \in g : s.node = node /\ s.port = port
    /\ prevent => pub \notin ApplyReach(g, {node}, {})

(***************************************************************************)
(* Path construction: Path.__new__ and Path.tail.                          *)
(***************************************************************************)
NoPath == [cls |-> "None", head |-> None, tail |-> None]

Found(n) == [status |-> "ok", node |-> n]
Raised(msg) == [status |-> msg, node |-> None]

RECURSIVE tail(_, _, _, _), tailLoop(_, _, _, _, _)
\* tail with the cycle assertion dropped: a node whose subscribers lead back
\* into the chain is taken for a terminal node
tailCycleAsTerminal(g, head, expected, path) ==
    IF expected # None /\ head = expected THEN {Found(head)}
    ELSE LET subscribers == ApplySubscribers(g, head) IN
         IF subscribers = {} THEN {Found(head)}
         ELSE LET path1 == path \cup {head} IN
              IF subscribers \cap path1 # {} THEN {Found(head)}
              ELSE tailLoop(g, expected, path1, subscribers, {})
\* Path.tail: the set of outcomes over the iteration orders of the
\* subscribers set and the choice of endings.pop()
tail(g, head, expected, path) ==
    IF expected # None /\ head = expected THEN {Found(head)}
    ELSE LET subscribers == ApplySubscribers(g, head) IN
         IF subscribers = {} THEN {Found(head)}
         ELSE LET path1 == path \cup {head} IN
              IF subscribers \cap path1 # {} THEN {Raised("Cyclic flow")}
              ELSE tailLoop(g, expected, path1, subscribers, {})

\* the for loop of Path.tail over the subscribers not yet visited
tailLoop(g, expected, path, rest, endings) ==
    IF rest = {}
    THEN IF Cardinality(path) > 1 \/ (expected = None /\ Cardinality(endings) = 1)
         THEN {Found(e) : e \in endings}
         ELSE {Raised("Ambiguous tail")}
    ELSE UNION {UNION {IF o.status # "ok" THEN {o}
                       ELSE IF expected # None /\ o.node = expected THEN {o}
                       ELSE tailLoop(g, expected, path, rest \ {n}, endings \cup {o.node})
                       : o \in tail(g, n, expected, path)}
                : n \in rest}

Failure(msg) == [status |-> msg, cls |-> "None", head |-> None, tail |-> None]

\* Classify looking at Train subscriptions only
ClassifyTrainOnly(g, t) ==
    IF \E s \in output(g, t) : s.port = Train THEN "Closure" ELSE "Channel"
\* Closure if any output subscription of the tail is a Train/Label one
Classify(g, t) ==
    IF \E s \in output(g, t) : IsSink(s.port) THEN "Closure" ELSE "Channel"

\* Path.__new__(head, tail): the set of possible outcomes
Path(nd, g, head, t) ==
    IF nd[head].szin \notin {0, 1} THEN {Failure("Simple head required")}
    ELSE {IF o.status # "ok" THEN Failure(o.status)
          ELSE IF nd[o.node].szout \notin {0, 1} THEN Failure("Simple tail required")
          ELSE [status |-> "ok", cls |-> Classify(g, o.node), head |-> head, tail |-> o.node]
          : o \in tail(g, head, t, {})}

PathOf(r) == [cls |-> r.cls, head |-> r.head, tail |-> r.tail]

(***************************************************************************)
(* Initial flows: the topologies of the scenarios (a linear flow, a head   *)
(* with two apply outputs each subscribed by a leaf, a fan-out below the   *)
(* head, two publishers joined by a two-input worker, a tail publishing to *)
(* a Train port).                                                          *)
(***************************************************************************)
Worker(szin, szout) == [szin |-> szin, szout |-> szout]

Flow(nd, g) == [nodes |-> nd, subs |-> g]

Empty == Flow(<<>>, {})

Chain == Flow(<<Worker(1, 1), Worker(1, 1), Worker(1, 1)>>,
              {Subscription(1, 0, 2, Apply(0)), Subscription(2, 0, 3, Apply(0))})

Fork == Flow(<<Worker(1, 2), Worker(1, 1), Worker(1, 1)>>,
             {Subscription(1, 0, 2, Apply(0)), Subscription(1, 1, 3, Apply(0))})

Fanout == Flow(<<Worker(1, 1), Worker(1, 1), Worker(1, 1), Worker(1, 1)>>,
               {Subscription(1, 0, 2, Apply(0)), Subscription(2, 0, 3, Apply(0)),
                Subscription(2, 0, 4, Apply(0))})

Join == Flow(<<Worker(1, 1), Worker(1, 1), Worker(2, 1)>>,
             {Subscription(1, 0, 3, Apply(0)), Subscription(2, 0, 3, Apply(1))})

Trained == Flow(<<Worker(1, 1), Worker(1, 1), Worker(1, 1)>>,
                {Subscription(1, 0, 2, Apply(0)), Subscription(2, 0, 3, Train)})


\* two segments not yet connected, each a head with one apply subscriber
Pair == Flow(<<Worker(1, 1), Worker(1, 1), Worker(1, 1), Worker(1, 1)>>,
             {Subscription(1, 0, 2, Apply(0)), Subscription(3, 0, 4, Apply(0))})

Flows == {Empty, Chain, Fork, Fanout, Join, Trained}

(***************************************************************************)
(* Operations.                                                             *)
(***************************************************************************)
Idle == [op |-> "idle", status |-> "ok", path |-> NoPath, head |-> None, tail |-> None,
         right |-> NoPath, port |-> Train, node |-> None, before |-> {}, visits |-> <<>>]

NodeIds == 1..Len(nodes)

\* node.Worker(spec, szin, szout)
NewWorker(szin, szout) ==
    /\ edits < MaxEdits
    /\ nodes' = Append(nodes, Worker(szin, szout))
    /\ edits' = edits + 1
    /\ res' = Idle
    /\ UNCHANGED <<subs, p, pc>>
    /\ UNCHANGED <<assetVars, runVars, dslVars, foldVars>>

\* node[port].subscribe(pub[idx])
Subscribe(node, port, pub, idx, prevent) ==
    /\ edits < MaxEdits
    /\ port \in Ports(nodes[node].szin)
    /\ idx \in 0..(nodes[pub].szout - 1)
    /\ Subscription(pub, idx, node, port) \notin subs
    /\ CanSubscribe(subs, pub, idx, node, port, prevent)
    /\ subs' = subs \cup {Subscription(pub, idx, node, port)}
    /\ edits' = edits + 1
    /\ res' = Idle
    /\ UNCHANGED <<nodes, p, pc>>
    /\ UNCHANGED <<assetVars, runVars, dslVars, foldVars>>

\* p = Path(head, tail)
NewPath(head, t) ==
    /\ pc = "compose"
    /\ \E o \in Path(nodes, subs, head, t) :
        /\ p' = IF o.status = "ok" THEN PathOf(o) ELSE NoPath
        /\ pc' = IF o.status = "ok" THEN "hold" ELSE "compose"
        /\ res' = [Idle EXCEPT !.op = "new", !.status = o.status, !.path = PathOf(o),
                               !.head = head, !.tail = t, !.before = subs]
        /\ UNCHANGED <<nodes, subs, edits>>
        /\ UNCHANGED <<assetVars, runVars, dslVars, foldVars>>

\* node[port].subscribe(...) on top of graph g: the message of the failing
\* constraint check, "ok" when the subscription is accepted
subscribe(g, pub, idx, node, port) ==
    IF ~ CanSubscribe(g, pub, idx, node, port, FALSE) THEN "Already subscribed"
    ELSE IF ~ CanSubscribe(g, pub, idx, node, port, TRUE) THEN "Cyclic subscription"
    ELSE "ok"


\* Channel.extend retracing the path without subscribing the right head
ChannelExtendUnsubscribed(nd, g, self, right, t) ==
    IF right # NoPath
    THEN {[status |-> o.status, path |-> PathOf(o), subs |-> g]
          : o \in Path(nd, g, self.head, IF t = None THEN right.tail ELSE t)}
    ELSE {[status |-> o.status, path |-> PathOf(o), subs |-> g]
          : o \in Path(nd, g, self.head, IF t = None THEN self.tail ELSE t)}

\* Channel.extend(right, tail): the outcomes [status, path, subs]
ChannelExtend(nd, g, self, right, t) ==
    IF right # NoPath
    THEN LET sub == subscribe(g, self.tail, 0, right.head, Apply(0))
             g1 == g \cup {Subscription(self.tail, 0, right.head, Apply(0))}
             t1 == IF t = None THEN right.tail ELSE t
         IN IF sub # "ok" THEN {[status |-> sub, path |-> NoPath, subs |-> g]}
            ELSE {[status |-> o.status, path |-> PathOf(o), subs |-> g1]
                  : o \in Path(nd, g1, self.head, t1)}
    ELSE IF t = None
    THEN UNION {IF e.status # "ok" THEN {[status |-> e.status, path |-> NoPath, subs |-> g]}
                ELSE {[status |-> o.status, path |-> PathOf(o), subs |-> g]
                      : o \in Path(nd, g, self.head, e.node)}
                : e \in tail(g, self.tail, None, {})}
    ELSE {[status |-> o.status, path |-> PathOf(o), subs |-> g] : o \in Path(nd, g, self.head, t)}

\* ClosureExtend accepting any explicit tail
ClosureExtendAnyTail(nd, g, self, right, t) ==
    IF right = NoPath
    THEN {[status |-> o.status, path |-> PathOf(o), subs |-> g]
          : o \in Path(nd, g, self.head, IF t = None THEN self.tail ELSE t)}
    ELSE {[status |-> "Connecting closure path", path |-> NoPath, subs |-> g]}
\* Closure.extend(right, tail): the outcomes [status, path, subs]
ClosureExtend(nd, g, self, right, t) ==
    IF right = NoPath /\ (t = None \/ t = self.tail)
    THEN {[status |-> o.status, path |-> PathOf(o), subs |-> g]
          : o \in Path(nd, g, self.head, self.tail)}
    ELSE {[status |-> "Connecting closure path", path |-> NoPath, subs |-> g]}

\* the paths that can be handed over as the right operand of extend
RightPaths ==
    {NoPath} \cup {PathOf(o) : o \in {x \in UNION {Path(nodes, subs, h, t)
                                        : h \in NodeIds, t \in {None} \cup NodeIds}
                                     : x.status = "ok"}}

\* p.extend(right, tail)
Extend(right, t) ==
    /\ pc = "hold"
    /\ pc' = "done"
    /\ \E o \in (IF p.cls = "Closure" THEN ClosureExtend(nodes, subs, p, right, t)
                 ELSE ChannelExtend(nodes, subs, p, right, t)) :
        /\ subs' = o.subs
        /\ res' = [Idle EXCEPT !.op = "extend", !.status = o.status, !.path = o.path,
                               !.right = right, !.tail = t, !.before = subs]
    /\ UNCHANGED <<nodes, p, edits>>
    /\ UNCHANGED <<assetVars, runVars, dslVars, foldVars>>


(***************************************************************************)
(* Traversal: PreOrder.visit_path.                                         *)
(***************************************************************************)
\* the subscribers scan descends to, reading the condition on the tail as
\* leaving out its Train/Label subscribers
SubscribersSkippingTailSinks(g, t, publisher, seen) ==
    {s.node : s \in {x \in output(g, publisher) :
                        x.node \notin seen /\ (publisher # t \/ IsApply(x.port))}}
\* {s.node for p in publisher.output for s in p if s.node not in seen and
\*  (publisher != tail or not isinstance(s.port, port.Apply))}
Subscribers(g, t, publisher, seen) ==
    {s.node : s \in {x \in output(g, publisher) :
                        x.node \notin seen /\ (publisher # t \/ ~ IsApply(x.port))}}

\* the state of a traversal: the nodes handed to visit_node in order, the
\* seen set and the assertion that failed, if any
Scanned(status, visits, seen) == [status |-> status, visits |-> visits, seen |-> seen]

RECURSIVE scan(_, _, _, _, _), scanLoop(_, _, _, _, _)
\* scan(publisher, path) of PreOrder.visit_path continuing the traversal st:
\* the set of outcomes over the iteration orders of the subscribers set
scan(g, t, publisher, path, st) ==
    LET visited == Scanned(st.status, Append(st.visits, publisher), st.seen \cup {publisher})
        subscribers == Subscribers(g, t, publisher, visited.seen)
    IN IF subscribers = {} THEN {visited}
       ELSE LET path1 == path \cup {publisher} IN
            IF subscribers \cap path1 # {}
            THEN {Scanned("Cyclic flow", visited.visits, visited.seen)}
            ELSE scanLoop(g, t, path1, subscribers, visited)

\* the for loop of scan over the subscribers not yet scanned
scanLoop(g, t, path, rest, st) ==
    IF rest = {} THEN {st}
    ELSE UNION {UNION {IF o.status # "ok" THEN {o}
                       ELSE scanLoop(g, t, path, rest \ {n}, o)
                       : o \in scan(g, t, n, path, st)}
                : n \in rest}

\* PreOrder.visit_path(head, tail)
visit_path(g, head, t) == scan(g, t, head, {}, Scanned("ok", <<>>, {}))

\* p.accept(visitor) with a PreOrder visitor recording the nodes it is handed
PathAccept ==
    /\ pc = "hold"
    /\ pc' = "done"
    /\ \E o \in visit_path(subs, p.head, p.tail) :
        res' = [Idle EXCEPT !.op = "accept", !.status = o.status, !.path = p,
                            !.visits = o.visits, !.before = subs]
    /\ UNCHANGED <<nodes, subs, p, edits>>
    /\ UNCHANGED <<assetVars, runVars, dslVars, foldVars>>

\* republish without the port kind assertion
republishForwarding(cls, port) == "ok"
\* Closure.Publishable.republish(subscription) on top of the tail's publisher
republish(cls, port) ==
    IF cls = "Closure" /\ ~ IsSink(port) THEN "Closure path publishing" ELSE "ok"

\* node[port].subscribe(p.publisher): the status and the resulting graph
PathPublish(g, self, node, port) ==
    LET sub == subscribe(g, self.tail, 0, node, port)
        pub == republish(self.cls, port)
    IN IF sub # "ok" THEN [status |-> sub, subs |-> g]
       ELSE IF pub # "ok" THEN [status |-> pub, subs |-> g]
       ELSE [status |-> "ok", subs |-> g \cup {Subscription(self.tail, 0, node, port)}]

\* node[port].subscribe(p.publisher)
Publish(node, port) ==
    /\ pc = "hold"
    /\ pc' = "done"
    /\ port \in Ports(nodes[node].szin)
    /\ LET o == PathPublish(subs, p, node, port) IN
        /\ subs' = o.subs
        /\ res' = [Idle EXCEPT !.op = "publish", !.status = o.status, !.path = p,
                               !.node = node, !.port = port, !.before = subs]
    /\ UNCHANGED <<nodes, p, edits>>
    /\ UNCHANGED <<assetVars, runVars, dslVars, foldVars>>


(***************************************************************************)
(* Path.copy.                                                              *)

(***************************************************************************)
(* Python values of the asset directory: scalars, strings as sequences of  *)
(* characters, and the conversions between them.                           *)
(***************************************************************************)
\* bound of the asset model: the number of states a tag refers to
MaxStates == 1

\* bound of the asset model: the highest generation key advanced from
MaxKey == 3

PyNone == [type |-> "NoneType", int |-> 0, chars |-> <<>>]
PyInt(i) == [type |-> "int", int |-> i, chars |-> <<>>]
PyBool(b) == [type |-> "bool", int |-> IF b THEN 1 ELSE 0, chars |-> <<>>]
\* a float with three decimal places, held in thousandths
PyFloat(thousandths) == [type |-> "float", int |-> thousandths, chars |-> <<>>]
PyStr(chars) == [type |-> "str", int |-> 0, chars |-> chars]

DigitChars == <<"0", "1", "2", "3", "4", "5", "6", "7", "8", "9">>
HexChars == DigitChars \o <<"a", "b", "c", "d", "e", "f">>
Range(seq) == {seq[i] : i \in DOMAIN seq}
IsDigit(c) == c \in Range(DigitChars)
DigitValue(c) == (CHOOSE i \in DOMAIN HexChars : HexChars[i] = c) - 1
Front(seq) == SubSeq(seq, 1, Len(seq) - 1)
Last(seq) == seq[Len(seq)]

\* the decimal digits of a natural number
RECURSIVE Decimal(_)
Decimal(n) == IF n < 10 THEN <<DigitChars[n + 1]>> ELSE Decimal(n \div 10) \o <<DigitChars[(n % 10) + 1]>>

\* a natural number zero padded to width digits (%0<width>d)
RECURSIVE Padded(_, _)
Padded(n, width) ==
    IF width <= 1 /\ n < 10 THEN <<DigitChars[n + 1]>>
    ELSE Padded(n \div 10, width - 1) \o <<DigitChars[(n % 10) + 1]>>

\* the value of a sequence of digits in the given base
RECURSIVE Number(_, _)
Number(chars, base) ==
    IF chars = <<>> THEN 0 ELSE Number(Front(chars), base) * base + DigitValue(Last(chars))

\* a sequence with its trailing "0" characters removed, keeping one character
RECURSIVE Trimmed(_)
Trimmed(chars) == IF Len(chars) > 1 /\ Last(chars) = "0" THEN Trimmed(Front(chars)) ELSE chars

Signed(n, chars) == IF n < 0 THEN <<"-">> \o chars ELSE chars
Abs(n) == IF n < 0 THEN -n ELSE n

\* repr() of a float: shortest decimal form with at least one decimal
FloatRepr(thousandths) ==
    Signed(thousandths, Decimal(Abs(thousandths) \div 1000) \o <<".">>
                        \o Trimmed(Padded(Abs(thousandths) % 1000, 3)))

\* str(value)
str(v) ==
    CASE v.type = "NoneType" -> <<"N", "o", "n", "e">>
      [] v.type = "bool" -> IF v.int = 1 THEN <<"T", "r", "u", "e">> ELSE <<"F", "a", "l", "s", "e">>
      [] v.type = "int" -> Signed(v.int, Decimal(Abs(v.int)))
      [] v.type = "float" -> FloatRepr(v.int)
      [] v.type = "str" -> v.chars

\* a sequence with leading and trailing blanks removed
RECURSIVE Stripped(_)
Stripped(chars) ==
    IF chars # <<>> /\ Head(chars) = " " THEN Stripped(Tail(chars))
    ELSE IF chars # <<>> /\ Last(chars) = " " THEN Stripped(Front(chars))
    ELSE chars

\* the digit groups of an integer literal: digits with single underscores between
RECURSIVE IsDigits(_)
IsDigits(chars) ==
    /\ chars # <<>>
    /\ IsDigit(Head(chars))
    /\ \/ Len(chars) = 1
       \/ IsDigits(Tail(chars))
       \/ Len(chars) > 2 /\ chars[2] = "_" /\ IsDigits(SubSeq(chars, 3, Len(chars)))

Without(chars, c) == SelectSeq(chars, LAMBDA x : x # c)

ValueError == [status |-> "ValueError", int |-> 0]

\* int(text): the integer a string spells, or ValueError
int(chars) ==
    LET text == Stripped(chars)
        signed == text # <<>> /\ Head(text) \in {"-", "+"}
        digits == IF signed THEN Tail(text) ELSE text
    IN IF ~ IsDigits(digits) THEN ValueError
       ELSE [status |-> "ok",
             int |-> IF signed /\ Head(text) = "-" THEN -Number(Without(digits, "_"), 10)
                     ELSE Number(Without(digits, "_"), 10)]

\* json.dumps of a scalar (strings need no escaping in this model)
jsonDumps(v) ==
    CASE v.type = "NoneType" -> <<"n", "u", "l", "l">>
      [] v.type = "bool" -> IF v.int = 1 THEN <<"t", "r", "u", "e">> ELSE <<"f", "a", "l", "s", "e">>
      [] v.type = "int" -> Signed(v.int, Decimal(Abs(v.int)))
      [] v.type = "float" -> FloatRepr(v.int)
      [] v.type = "str" -> <<"\"">> \o v.chars \o <<"\"">>

\* a sequence padded on the right with "0" up to width characters
RECURSIVE ZeroFilled(_, _)
ZeroFilled(chars, width) == IF Len(chars) >= width THEN chars ELSE ZeroFilled(chars \o <<"0">>, width)

IndexOf(chars, c) == CHOOSE i \in DOMAIN chars : chars[i] = c /\ \A j \in 1..(i - 1) : chars[j] # c

\* json.loads of a scalar
jsonLoads(text) ==
    CASE text = <<"n", "u", "l", "l">> -> PyNone
      [] text = <<"t", "r", "u", "e">> -> PyBool(TRUE)
      [] text = <<"f", "a", "l", "s", "e">> -> PyBool(FALSE)
      [] Head(text) = "\"" -> PyStr(SubSeq(text, 2, Len(text) - 1))
      [] OTHER ->
          LET negative == Head(text) = "-"
              digits == IF negative THEN Tail(text) ELSE text
          IN IF "." \in Range(digits)
             THEN LET dot == IndexOf(digits, ".")
                      whole == Number(SubSeq(digits, 1, dot - 1), 10)
                      frac == Number(ZeroFilled(SubSeq(digits, dot + 1, Len(digits)), 3), 10)
                  IN PyFloat(IF negative THEN -(whole * 1000 + frac) ELSE whole * 1000 + frac)
             ELSE PyInt(IF negative THEN -Number(digits, 10) ELSE Number(digits, 10))

(***************************************************************************)
(* Tag: generation metadata, its constructor and its serialization.        *)
(***************************************************************************)
\* datetime(year, month, day, hour, minute, second, microsecond), <<>> for None
NoTimestamp == <<>>
Timestamps == {<<2020, 5, 17, 8, 30, 59, 0>>, <<2021, 12, 31, 23, 59, 9, 120>>}

\* uuid.UUID objects by their integer value
UUIDs == {10, 48879}

\* Tag.Training(timestamp, ordinal) and Tag.Tuning(timestamp, score)
Training(timestamp, ordinal) == [timestamp |-> timestamp, ordinal |-> ordinal]
Tuning(timestamp, score) == [timestamp |-> timestamp, score |-> score]

\* Mode.__bool__
bool(mode) == mode.timestamp # NoTimestamp

\* Tag.__new__(training, tuning, states): a mode without timestamp is falsy
\* and is replaced by the default mode; states are stored as a tuple
Tag(training, tuning, states) ==
    [training |-> IF bool(training) THEN training ELSE Training(NoTimestamp, PyNone),
     tuning |-> IF bool(tuning) THEN tuning ELSE Tuning(NoTimestamp, PyNone),
     states |-> states]

NOTAG == Tag(Training(NoTimestamp, PyNone), Tuning(NoTimestamp, PyNone), <<>>)

\* Tag.__bool__
TagBool(t) == bool(t.training) \/ bool(t.tuning)

\* _strftime printing the fraction of the second in three digits
strftimeMillis(timestamp) ==
    IF timestamp = NoTimestamp THEN PyNone
    ELSE PyStr(Padded(timestamp[1], 4) \o <<"-">> \o Padded(timestamp[2], 2) \o <<"-">>
               \o Padded(timestamp[3], 2) \o <<"T">> \o Padded(timestamp[4], 2) \o <<":">>
               \o Padded(timestamp[5], 2) \o <<":">> \o Padded(timestamp[6], 2) \o <<".">>
               \o Padded(timestamp[7], 3))

\* Tag._strftime with _TSFMT = '%Y-%m-%dT%H:%M:%S.%f'
strftime(timestamp) ==
    IF timestamp = NoTimestamp THEN PyNone
    ELSE PyStr(Padded(timestamp[1], 4) \o <<"-">> \o Padded(timestamp[2], 2) \o <<"-">>
               \o Padded(timestamp[3], 2) \o <<"T">> \o Padded(timestamp[4], 2) \o <<":">>
               \o Padded(timestamp[5], 2) \o <<":">> \o Padded(timestamp[6], 2) \o <<".">>
               \o Padded(timestamp[7], 6))

\* the fields of a string: its groups of digits and the characters between them
RECURSIVE Fields(_, _, _)
Fields(chars, groups, seps) ==
    IF chars = <<>> THEN [groups |-> groups, seps |-> seps]
    ELSE IF IsDigit(Head(chars))
    THEN Fields(Tail(chars), [groups EXCEPT ![Len(groups)] = @ \o <<Head(chars)>>], seps)
    ELSE Fields(Tail(chars), Append(groups, <<>>), Append(seps, Head(chars)))

\* Tag._strptime with _TSFMT: None for no string, ValueError for a string
\* that does not match the format
strptime(raw) ==
    IF raw.type = "NoneType" \/ raw.chars = <<>> THEN [status |-> "ok", timestamp |-> NoTimestamp]
    ELSE LET f == Fields(raw.chars, <<<<>>>>, <<>>)
             n(i) == Number(f.groups[i], 10)
         IN IF /\ f.seps = <<"-", "-", "T", ":", ":", ".">>
               /\ Len(f.groups[1]) = 4
               /\ \A i \in 2..6 : Len(f.groups[i]) \in 1..2
               /\ Len(f.groups[7]) \in 1..6
               /\ n(2) \in 1..12 /\ n(3) \in 1..31 /\ n(4) \in 0..23
               /\ n(5) \in 0..59 /\ n(6) \in 0..61
            THEN [status |-> "ok",
                  timestamp |-> <<n(1), n(2), n(3), n(4), n(5), n(6),
                                  Number(ZeroFilled(f.groups[7], 6), 10)>>]
            ELSE [status |-> "ValueError", timestamp |-> NoTimestamp]

\* the hexadecimal digits of a natural number, zero padded to width
RECURSIVE Hex(_, _)
Hex(n, width) == IF width = 0 THEN <<>> ELSE Hex(n \div 16, width - 1) \o <<HexChars[(n % 16) + 1]>>

\* str(uuid): 32 hexadecimal digits in groups of 8-4-4-4-12
UUIDStr(u) ==
    LET hex == Hex(u, 32)
    IN SubSeq(hex, 1, 8) \o <<"-">> \o SubSeq(hex, 9, 12) \o <<"-">> \o SubSeq(hex, 13, 16)
       \o <<"-">> \o SubSeq(hex, 17, 20) \o <<"-">> \o SubSeq(hex, 21, 32)

\* uuid.UUID(text): the hyphens removed, 32 hexadecimal digits expected
UUID(chars) ==
    LET hex == Without(chars, "-")
    IN IF Len(hex) = 32 /\ Range(hex) \subseteq Range(HexChars)
       THEN [status |-> "ok", uuid |-> Number(hex, 16)]
       ELSE [status |-> "ValueError", uuid |-> 0]

\* Tag.dumps: the JSON document, scalars encoded as JSON text
dumps(t) ==
    [training |-> [timestamp |-> jsonDumps(strftime(t.training.timestamp)),
                   ordinal |-> jsonDumps(t.training.ordinal)],
     tuning |-> [timestamp |-> jsonDumps(strftime(t.tuning.timestamp)),
                 score |-> jsonDumps(t.tuning.score)],
     states |-> [i \in DOMAIN t.states |-> jsonDumps(PyStr(UUIDStr(t.states[i])))]]

\* Tag.loads: [status, tag]
loads(raw) ==
    LET training == strptime(jsonLoads(raw.training.timestamp))
        tuning == strptime(jsonLoads(raw.tuning.timestamp))
        states == [i \in DOMAIN raw.states |-> UUID(jsonLoads(raw.states[i]).chars)]
    IN IF training.status # "ok" \/ tuning.status # "ok"
          \/ \E i \in DOMAIN states : states[i].status # "ok"
       THEN [status |-> "ValueError", tag |-> NOTAG]
       ELSE [status |-> "ok",
             tag |-> Tag(Training(training.timestamp, jsonLoads(raw.training.ordinal)),
                         Tuning(tuning.timestamp, jsonLoads(raw.tuning.score)),
                         [i \in DOMAIN states |-> states[i].uuid])]

\* Tag.replace(**kwargs) with the mode fields replaceable as well
TagReplaceAnyField(t, kwargs) ==
    IF ~(DOMAIN kwargs \subseteq DOMAIN t)
    THEN [status |-> "Invalid replacement", tag |-> t]
    ELSE [status |-> "ok",
          tag |-> [k \in DOMAIN t |-> IF k \in DOMAIN kwargs THEN kwargs[k] ELSE t[k]]]

\* Tag.replace(**kwargs): only the fields holding no mode are replaceable;
\* namedtuple._replace stores the given values as they are
TagReplace(t, kwargs) ==
    LET replaceable == {k \in DOMAIN t : k \notin {"training", "tuning"}}
    IN IF ~(DOMAIN kwargs \subseteq replaceable)
       THEN [status |-> "Invalid replacement", tag |-> t]
       ELSE [status |-> "ok",
             tag |-> [k \in DOMAIN t |-> IF k \in DOMAIN kwargs THEN kwargs[k] ELSE t[k]]]

\* Tag.Mode.Proxy.replace(**kwargs) of the proxy of the tag's mode field:
\* the mode rebuilt from its attributes and the keywords, the tag rebuilt by
\* the Tag constructor around it
ProxyReplace(t, field, kwargs) ==
    LET mode == [k \in DOMAIN t[field] |-> IF k \in DOMAIN kwargs THEN kwargs[k] ELSE t[field][k]]
    IN Tag(IF field = "training" THEN mode ELSE t.training,
           IF field = "tuning" THEN mode ELSE t.tuning,
           t.states)

\* Proxy.trigger leaving the timestamp of the mode as it was
triggerKeepingTimestamp(t, field, timestamp, utcnow) ==
    ProxyReplace(t, field, [timestamp |-> t[field].timestamp])

\* Tag.Mode.Proxy.trigger(timestamp) at the time utcnow: timestamp or utcnow()
trigger(t, field, timestamp, utcnow) ==
    ProxyReplace(t, field, [timestamp |-> IF timestamp # NoTimestamp THEN timestamp ELSE utcnow])

(***************************************************************************)
(* Level: generation keys and the generation tag lookup.                   *)
(***************************************************************************)
\* Level.Key.MIN
MIN == 1

Invalid(reason) == [status |-> reason, key |-> None]

\* Key.__new__ refusing negative keys only
KeyNonNegative(value) ==
    LET instance == int(str(value))
    IN IF instance.status # "ok" THEN Invalid("Invalid key (not an integer)")
       ELSE IF instance.int < 0 THEN Invalid("Invalid key (not natural)")
       ELSE [status |-> "ok", key |-> instance.int]

\* Level.Key.__new__(key): int(str(key)), no key below MIN
Key(value) ==
    LET instance == int(str(value))
    IN IF instance.status # "ok" THEN Invalid("Invalid key (not an integer)")
       ELSE IF instance.int < MIN THEN Invalid("Invalid key (not natural)")
       ELSE [status |-> "ok", key |-> instance.int]

\* Level.Key.next
next(self) == Key(PyInt(self + 1))

\* directory.Level.key: the explicit key if the parent lists it, the last key
\* of the parent's listing for an implicit one
LevelKey(explicit, listing) ==
    IF explicit = None
    THEN IF listing = {} THEN Invalid("Listing.Empty")
         ELSE [status |-> "ok", key |-> CHOOSE k \in listing : \A other \in listing : other <= k]
    ELSE IF explicit \notin listing THEN Invalid("Level.Invalid")
    ELSE [status |-> "ok", key |-> explicit]

\* a generation level addressed by optional project, lineage and generation keys
Level(project, lineage, generation) ==
    [project |-> project, lineage |-> lineage, generation |-> generation]

\* a registry holding the listed projects, the lineages of the project and
\* the serialized tags of the generations of the lineage
Registry(projects, lineages, generations) ==
    [projects |-> projects, lineages |-> lineages, generations |-> generations]

\* TAGS(registry, project, lineage, generation): the stored tag, decoded
TAGS(reg, project, lineage, generation) == loads(reg.generations[generation]).tag

Tagged(status, returned, t, reads) ==
    [status |-> status, returned |-> returned, tag |-> t, reads |-> reads]

\* Level.tag with the lineage key resolved inside the try block
LevelTagLenient(reg, self) ==
    LET project == LevelKey(self.project, reg.projects)
        lineage == LevelKey(self.lineage, reg.lineages)
        generation == LevelKey(self.generation, DOMAIN reg.generations)
    IN IF project.status # "ok" THEN Tagged(project.status, FALSE, NOTAG, 0)
       ELSE IF lineage.status = "Listing.Empty" THEN Tagged("ok", TRUE, NOTAG, 0)
       ELSE IF lineage.status # "ok" THEN Tagged(lineage.status, FALSE, NOTAG, 0)
       ELSE IF generation.status = "Listing.Empty" THEN Tagged("ok", TRUE, NOTAG, 0)
       ELSE IF generation.status # "ok" THEN Tagged(generation.status, FALSE, NOTAG, 0)
       ELSE Tagged("ok", TRUE, TAGS(reg, project.key, lineage.key, generation.key), 1)

\* Level.tag
LevelTag(reg, self) ==
    LET project == LevelKey(self.project, reg.projects)
        lineage == LevelKey(self.lineage, reg.lineages)
        generation == LevelKey(self.generation, DOMAIN reg.generations)
    IN IF project.status # "ok" THEN Tagged(project.status, FALSE, NOTAG, 0)
       ELSE IF lineage.status # "ok" THEN Tagged(lineage.status, FALSE, NOTAG, 0)
       ELSE IF generation.status = "Listing.Empty" THEN Tagged("ok", TRUE, NOTAG, 0)
       ELSE IF generation.status # "ok" THEN Tagged(generation.status, FALSE, NOTAG, 0)
       ELSE Tagged("ok", TRUE, TAGS(reg, project.key, lineage.key, generation.key), 1)

(***************************************************************************)
(* The asset directory as a state machine.                                 *)
(***************************************************************************)
Ordinals == {PyNone, PyInt(42), PyStr(<<"7">>)}
Scores == {PyNone, PyFloat(930), PyInt(-1)}

RECURSIVE SeqsUpTo(_, _)
SeqsUpTo(S, n) ==
    IF n = 0 THEN {<<>>} ELSE SeqsUpTo(S, n - 1) \cup {Append(s, x) : s \in SeqsUpTo(S, n - 1), x \in S}

KeyValues ==
    {PyInt(i) : i \in -1..2} \cup {PyNone, PyBool(TRUE), PyFloat(1500), PyFloat(2000)}
        \cup {PyStr(c) : c \in {<<"3">>, <<"x">>, <<" ", "2", " ">>, <<"1", "_", "0">>,
                                <<"-", "2">>, <<"0">>, <<>>}}

Stored == dumps(Tag(Training(<<2020, 5, 17, 8, 30, 59, 0>>, PyInt(1)), Tuning(NoTimestamp, PyNone), <<10>>))
Registries ==
    {Registry({}, {}, <<>>), Registry({1}, {}, <<>>), Registry({1}, {1}, <<>>),
     Registry({1}, {1}, <<Stored>>)}

Quiet == [op |-> "idle", status |-> "ok", tag |-> NOTAG, raw |-> dumps(NOTAG), value |-> PyNone,
          key |-> None, from |-> None, level |-> Level(None, None, None),
          returned |-> FALSE, reads |-> 0, kwargs |-> <<>>, mode |-> "training"]

\* the client builds a tag before it operates on anything
NewTag(training, tuning, states) ==
    /\ out.op = "idle" /\ key = MIN
    /\ tag' = Tag(training, tuning, states)
    /\ out' = Quiet
    /\ UNCHANGED <<key, registry>>
    /\ UNCHANGED <<flowVars, runVars, dslVars, foldVars>>

Dumps ==
    /\ out.op # "dumps"
    /\ out' = [Quiet EXCEPT !.op = "dumps", !.raw = dumps(tag)]
    /\ UNCHANGED <<tag, key, registry>>
    /\ UNCHANGED <<flowVars, runVars, dslVars, foldVars>>

Loads ==
    /\ out.op = "dumps"
    /\ LET loaded == loads(out.raw)
       IN out' = [Quiet EXCEPT !.op = "loads", !.raw = out.raw, !.status = loaded.status,
                               !.tag = loaded.tag]
    /\ UNCHANGED <<tag, key, registry>>
    /\ UNCHANGED <<flowVars, runVars, dslVars, foldVars>>

\* the client takes a key, when it holds no tag
NewKey(value) ==
    /\ tag = NOTAG
    /\ LET instance == Key(value)
       IN /\ key' = IF instance.status = "ok" THEN instance.key ELSE key
          /\ out' = [Quiet EXCEPT !.op = "key", !.value = value, !.status = instance.status,
                                  !.key = instance.key]
    /\ UNCHANGED <<tag, registry>>
    /\ UNCHANGED <<flowVars, runVars, dslVars, foldVars>>

KeyNext ==
    /\ tag = NOTAG
    /\ key <= MaxKey
    /\ LET instance == next(key)
       IN /\ key' = IF instance.status = "ok" THEN instance.key ELSE key
          /\ out' = [Quiet EXCEPT !.op = "next", !.from = key, !.status = instance.status,
                                  !.key = instance.key]
    /\ UNCHANGED <<tag, registry>>
    /\ UNCHANGED <<flowVars, runVars, dslVars, foldVars>>

Tagging(level) ==
    /\ LET o == LevelTag(registry, level)
       IN out' = [Quiet EXCEPT !.op = "tag", !.level = level, !.status = o.status,
                               !.returned = o.returned, !.tag = o.tag, !.reads = o.reads]
    /\ UNCHANGED <<tag, key, registry>>
    /\ UNCHANGED <<flowVars, runVars, dslVars, foldVars>>

\* the keyword arguments handed to Tag.replace: states, mode fields, both,
\* a field the tag does not have, none
Replacements ==
    {[states |-> states] : states \in SeqsUpTo(UUIDs, MaxStates)}
        \cup {[training |-> Training(ts, PyInt(42))] : ts \in {NoTimestamp} \cup Timestamps}
        \cup {[tuning |-> Tuning(ts, PyNone)] : ts \in Timestamps}
        \cup {[training |-> Training(ts, PyNone), states |-> <<10>>] : ts \in Timestamps}
        \cup {[ordinal |-> PyInt(42)], [states |-> <<>>, uuid |-> 10], <<>>}

\* Tag.replace(**kwargs) on the tag the client holds
Replace(kwargs) ==
    /\ out.op = "idle"
    /\ LET replaced == TagReplace(tag, kwargs)
       IN out' = [Quiet EXCEPT !.op = "replace", !.kwargs = kwargs, !.status = replaced.status,
                               !.tag = replaced.tag]
    /\ UNCHANGED <<tag, key, registry>>
    /\ UNCHANGED <<flowVars, runVars, dslVars, foldVars>>


\* the time datetime.utcnow() returns
Now == <<2021, 12, 31, 23, 59, 9, 120>>

\* the timestamps handed to Proxy.trigger: none and one that is not the time
\* of the call
Triggers == {NoTimestamp, <<2020, 5, 17, 8, 30, 59, 0>>}

\* the keyword arguments handed to Proxy.replace of a mode: its attribute,
\* its timestamp (cleared or set), both
ModeReplacements(field) ==
    LET attribute == IF field = "training" THEN [ordinal |-> PyInt(7)] ELSE [score |-> PyFloat(500)]
    IN {attribute, [timestamp |-> NoTimestamp], [timestamp |-> Now],
        [timestamp |-> Now] @@ attribute}

\* tag.training.replace(**kwargs) and tag.tuning.replace(**kwargs) on the
\* tag the client holds
ModeReplace(field, kwargs) ==
    /\ out.op = "idle"
    /\ out' = [Quiet EXCEPT !.op = "mode", !.mode = field, !.kwargs = kwargs,
                            !.tag = ProxyReplace(tag, field, kwargs)]
    /\ UNCHANGED <<tag, key, registry>>
    /\ UNCHANGED <<flowVars, runVars, dslVars, foldVars>>

\* tag.training.trigger(timestamp) and tag.tuning.trigger(timestamp) on the
\* tag the client holds, at the time utcnow
Trigger(field, timestamp, utcnow) ==
    /\ out.op = "idle"
    /\ out' = [Quiet EXCEPT !.op = "trigger", !.mode = field,
                            !.kwargs = [timestamp |-> timestamp, utcnow |-> utcnow],
                            !.tag = trigger(tag, field, timestamp, utcnow)]
    /\ UNCHANGED <<tag, key, registry>>
    /\ UNCHANGED <<flowVars, runVars, dslVars, foldVars>>

InitFlow ==
    /\ p = NoPath
    /\ res = Idle
    /\ edits = 0
    /\ pc = "compose"

InitAsset ==
    /\ tag = NOTAG
    /\ key = MIN
    /\ out = Quiet

(***************************************************************************)
\* the state of a copy under way: the nodes copied (the keys of copies) and
\* the subscriptions recreated between the copies, as their originals
Copying(status, copied, edges) == [status |-> status, copied |-> copied, edges |-> edges]

RECURSIVE recreate(_, _, _, _)
\* the loop "for orig in path" of mkcopy: the subscriptions of orig to the
\* nodes of path are subscribed between the copies, in any order of path
recreate(g, path, rest, st) ==
    IF rest = {} THEN {st}
    ELSE UNION {
        LET new == {s \in output(g, orig) : s.node \in path}
            errors == {subscribe(st.edges, s.pub, s.idx, s.node, s.port) : s \in new} \ {"ok"}
        IN IF errors # {}
           THEN {Copying(e, st.copied, st.edges) : e \in errors}
           ELSE recreate(g, path, rest \ {orig},
                         Copying("ok", st.copied \cup path, st.edges \cup new))
        : orig \in rest}

RECURSIVE mkcopy(_, _, _, _, _), mkcopyLoop(_, _, _, _, _)
\* mkcopy(publisher, path) towards the tail t
mkcopy(g, t, publisher, path, st) ==
    LET path1 == path \cup {publisher} IN
        IF publisher = t THEN recreate(g, path1, path1, st)
        ELSE mkcopyLoop(g, t, path1, ApplySubscribers(g, publisher), st)

\* the loop of mkcopy over the apply subscribers not yet visited
mkcopyLoop(g, t, path, rest, st) ==
    IF rest = {} THEN {st}
    ELSE UNION {IF subscriber \in path THEN {Copying("Cyclic flow", st.copied, st.edges)}
                ELSE UNION {IF st1.status # "ok" THEN {st1}
                            ELSE mkcopyLoop(g, t, path, rest \ {subscriber}, st1)
                            : st1 \in mkcopy(g, t, subscriber, path, st)}
                : subscriber \in rest}

\* the i-th node of the set c in the order of the node identifiers
Nth(c, i) == CHOOSE n \in c : Cardinality({m \in c : m <= n}) = i

\* copies[n]: the copy of node n of the copied set c, created after the nodes nd
CopyOf(nd, c, n) == Len(nd) + Cardinality({m \in c : m <= n})

\* node.copy() for every node of c: same szin and szout, no subscription
WithCopies(nd, c) == nd \o [i \in 1..Cardinality(c) |-> nd[Nth(c, i)]]

\* Path.copy(): the outcomes [status, path, nodes, subs]
copy(nd, g, self) ==
    UNION {
        IF st.status # "ok"
        THEN {[status |-> st.status, path |-> NoPath, nodes |-> nd, subs |-> g]}
        ELSE IF self.head \notin st.copied
        THEN {[status |-> "AttributeError", path |-> NoPath, nodes |-> nd, subs |-> g]}
        ELSE LET nd1 == WithCopies(nd, st.copied)
                 g1 == g \cup {Subscription(CopyOf(nd, st.copied, s.pub), s.idx,
                                            CopyOf(nd, st.copied, s.node), s.port)
                               : s \in st.edges}
             IN {IF o.status = "ok"
                 THEN [status |-> "ok", path |-> PathOf(o), nodes |-> nd1, subs |-> g1]
                 ELSE [status |-> o.status, path |-> NoPath, nodes |-> nd, subs |-> g]
                 : o \in Path(nd1, g1, CopyOf(nd, st.copied, self.head),
                              CopyOf(nd, st.copied, self.tail))}
        : st \in mkcopy(g, self.tail, self.head, {}, Copying("ok", {}, {}))}

\* p.copy()
Copy ==
    /\ pc = "hold"
    /\ pc' = "done"
    /\ \E o \in copy(nodes, subs, p) :
        /\ nodes' = o.nodes
        /\ subs' = o.subs
        /\ res' = [Idle EXCEPT !.op = "copy", !.status = o.status, !.path = o.path,
                               !.node = Len(nodes), !.before = subs]
    /\ UNCHANGED <<p, edits>>
    /\ UNCHANGED <<assetVars, runVars, dslVars, foldVars>>


(***************************************************************************)
(* The runner (forml/runtime).                                             *)
(***************************************************************************)
\* truth value of a Python scalar
Truthy(v) ==
    ~(\/ v.type = "NoneType"
      \/ v.type \in {"int", "float", "bool"} /\ v.int = 0
      \/ v.type = "str" /\ v.chars = <<>>)

\* the Python expression "a or b"
or(a, b) == IF Truthy(a) THEN a ELSE b

\* access.State handle asked of the assets for the shared workers
NoHandle == [given |-> FALSE, shared |-> 0, tagged |-> FALSE, tag |-> NOTAG]
Handle(shared, tagged, t) == [given |-> TRUE, shared |-> shared, tagged |-> tagged, tag |-> t]

\* a call the runner makes on one of its collaborators
Call(call, lower, upper, what, handle) ==
    [call |-> call, lower |-> lower, upper |-> upper, what |-> what, handle |-> handle]

\* Runner._build(lower, upper, *blocks): the feed loaded, each block
\* expanded and the composition assembled
build(lower, upper, blocks) ==
    <<Call("load", lower, upper, "source", NoHandle)>>
    \o [i \in DOMAIN blocks |-> Call("expand", PyNone, PyNone, blocks[i], NoHandle)]
    \o <<Call("compose", PyNone, PyNone, "sink", NoHandle)>>

\* Runner._exec(path, assets): the path compiled and handed to _run
exec(path, assets) ==
    <<Call("generate", PyNone, PyNone, path, assets), Call("run", PyNone, PyNone, path, assets)>>

\* Runner._evaluation checking the evaluation segment after the feed is loaded
evaluationBuildingFirst(proj, lower, upper) ==
    IF ~proj.evaluation
    THEN [status |-> "Project not evaluable", trace |-> build(lower, upper, <<"pipeline">>)]
    ELSE [status |-> "ok", trace |-> build(lower, upper, <<"pipeline >> evaluation">>)]

\* Runner._evaluation(lower, upper)
evaluation(proj, lower, upper) ==
    IF ~proj.evaluation
    THEN [status |-> "Project not evaluable", trace |-> <<>>]
    ELSE [status |-> "ok", trace |-> build(lower, upper, <<"pipeline >> evaluation">>)]

\* the lower bound Runner.train hands to _build
trainLower(lower, t) == or(lower, t.training.ordinal)

\* the new generation a completed training run leaves in the lineage: the
\* key following the last one (MIN in an empty lineage), holding the tag of
\* the state handle with the states of the shared workers
commit(reg, t, states) ==
    LET last == Len(reg.generations)
        new == IF last = 0 THEN MIN ELSE next(last).key
        stored == dumps(TagReplace(t, [states |-> states]).tag)
    IN [reg EXCEPT !.generations = [k \in 1..new |-> IF k = new THEN stored ELSE reg.generations[k]]]

(* Bound of the runner model: the number of runs launched. *)
MaxRuns == 1

\* the ordinal bounds a caller hands to the runner
Bounds == {PyNone, PyInt(0), PyInt(42)}
Projects == [evaluation : BOOLEAN, shared : 0..MaxStates]

Rest == [op |-> "idle", lower |-> PyNone, upper |-> PyNone, status |-> "ok", trace |-> <<>>,
         completed |-> FALSE, before |-> Registry({}, {}, <<>>), runs |-> 0]

Ran(op, lower, upper, status, trace, completed) ==
    [Rest EXCEPT !.op = op, !.lower = lower, !.upper = upper, !.status = status,
                 !.trace = trace, !.completed = completed, !.before = registry,
                 !.runs = run.runs + 1]

\* Runner.train(lower, upper) at the time utcnow; the run either completes,
\* leaving the states of the shared workers in a new generation, or fails
RunTrain ==
    /\ run.runs < MaxRuns
    /\ LET current == LevelTag(registry, Level(1, None, None))
       IN \E lower \in Bounds, upper \in Bounds :
          IF current.status # "ok"
          THEN /\ run' = Ran("train", lower, upper, current.status, <<>>, FALSE)
               /\ UNCHANGED registry
          ELSE \E utcnow \in Timestamps :
               LET composition == build(trainLower(lower, current.tag), upper, <<"pipeline">>)
                   state == Handle(descriptor.shared, TRUE, trigger(current.tag, "training", NoTimestamp, utcnow))
                   trace == composition \o exec("train", state)
               IN \/ /\ run' = Ran("train", lower, upper, "failed", trace, FALSE)
                     /\ UNCHANGED registry
                  \/ \E states \in SeqsUpTo(UUIDs, MaxStates) :
                        /\ Len(states) = descriptor.shared
                        /\ run' = Ran("train", lower, upper, "ok", trace, TRUE)
                        /\ registry' = commit(registry, state.tag, states)
    /\ UNCHANGED <<tag, key, out, descriptor>>
    /\ UNCHANGED <<flowVars, dslVars, foldVars>>

\* Runner.apply(lower, upper)
RunApply(lower, upper) ==
    /\ run.runs < MaxRuns
    /\ LET composition == build(lower, upper, <<"pipeline">>)
           state == Handle(descriptor.shared, FALSE, NOTAG)
       IN run' = Ran("apply", lower, upper, "ok", composition \o exec("apply", state), TRUE)
    /\ UNCHANGED <<assetVars, descriptor>>
    /\ UNCHANGED <<flowVars, dslVars, foldVars>>

\* Runner.cvscore(lower, upper)
RunCvscore(lower, upper) ==
    /\ run.runs < MaxRuns
    /\ LET segment == evaluation(descriptor, lower, upper)
       IN run' = IF segment.status # "ok"
                 THEN Ran("cvscore", lower, upper, segment.status, segment.trace, FALSE)
                 ELSE Ran("cvscore", lower, upper, "ok", segment.trace \o exec("train", NoHandle), TRUE)
    /\ UNCHANGED <<assetVars, descriptor>>
    /\ UNCHANGED <<flowVars, dslVars, foldVars>>

InitRun ==
    /\ descriptor = [evaluation |-> FALSE, shared |-> 0]
    /\ run = Rest

(***************************************************************************)
(* The DSL columns (forml/io/dsl/schema/series.py).                        *)
(***************************************************************************)
(* Bound of the DSL model: the number of operators applied on top of the
   initial column. *)
MaxOps == 2

\* Python values a literal is made of: dates, timestamps and lists next to
\* the scalars
PyDate(stamp) == [type |-> "date", int |-> 0, chars |-> <<>>, stamp |-> stamp]
PyDatetime(stamp) == [type |-> "datetime", int |-> 0, chars |-> <<>>, stamp |-> stamp]
PyList(items) == [type |-> "list", int |-> 0, chars |-> <<>>, items |-> items]

\* kindmod.reflect(value): the kind of a Python value
reflect(value) ==
    CASE value.type = "str" -> "String"
      [] value.type = "bool" -> "Boolean"
      [] value.type = "int" -> "Integer"
      [] value.type = "float" -> "Float"
      [] value.type = "date" -> "Date"
      [] value.type = "datetime" -> "Timestamp"
      [] value.type = "list" -> "Array"
      [] OTHER -> "Any"

\* kindmod.Numeric and the __cardinality__ order of its kinds
Numeric == {"Integer", "Float", "Decimal"}
cardinality(kind) ==
    CASE kind = "Integer" -> 1
      [] kind = "Float" -> 2
      [] kind = "Decimal" -> 3
      [] OTHER -> 0

\* a column: a tuple of its class with name, kind, value and terms
Column(type, name, kind, value, terms) ==
    [type |-> type, name |-> name, kind |-> kind, value |-> value, terms |-> terms]

IsColumn(value) == "terms" \in DOMAIN value

\* Field.__new__(table, name, kind)
Field(name, kind) == Column("Field", name, kind, PyNone, <<>>)

\* Literal.__new__(value)
Literal(value) == Column("Literal", <<>>, reflect(value), value, <<>>)

\* Column.element
element(column) == IF column.type = "Aliased" THEN column.terms[1] ELSE column

\* Aliased.__new__(column, alias), Aliased.kind
Aliased(column, alias) ==
    Column("Aliased", alias, element(column).kind, PyNone, <<element(column)>>)

\* cast(value)
cast(value) == IF ~IsColumn(value) THEN Literal(value) ELSE value

\* the classes mixing in Logical and Arithmetic
LogicalTypes == {"LessThan", "GreaterThan", "Equal", "And", "Or", "Not"}
ArithmeticTypes == {"Addition", "Subtraction", "Multiplication", "Division", "Modulus"}


\* Arithmetic.kind taking the kind of the first operand
ArithmeticKindOfFirst(terms) == terms[1].kind

\* Arithmetic.kind: the kind of the largest cardinality, the first of equals
ArithmeticKind(terms) ==
    IF cardinality(terms[1].kind) >= cardinality(terms[2].kind) THEN terms[1].kind
    ELSE terms[2].kind

\* Logical.ensure(column)
ensure(column) ==
    IF column.kind # "Boolean" THEN [status |-> "ValueError", column |-> column]
    ELSE [status |-> "ok", column |-> column]

\* Expression.__new__(*terms) of the given class: the terms stored as they
\* come, the kind that of the Logical or Arithmetic mixin (Integer for the
\* Count function)
Expression(type, terms) ==
    Column(type, <<>>,
           IF type \in LogicalTypes THEN "Boolean"
           ELSE IF type \in ArithmeticTypes THEN ArithmeticKind(terms)
           ELSE "Integer",
           PyNone, terms)

\* columnize: the arguments forced to element columns
columnize(args) == [i \in DOMAIN args |-> element(cast(args[i]))]

\* the Element operators +, *, >, <, &, | (Element.__add__ and the like)
Bivariate(type, self, other) == Expression(type, columnize(<<self, other>>))

\* Element.__invert__ and the functions of one argument
Univariate(type, self) == Expression(type, <<self>>)

\* accept visiting the column before its terms
RECURSIVE acceptRootFirst(_, _)
acceptRootFirst(column, at) ==
    <<at>>
    \o (IF Len(column.terms) >= 1 THEN acceptRootFirst(column.terms[1], Append(at, 1)) ELSE <<>>)
    \o (IF Len(column.terms) >= 2 THEN acceptRootFirst(column.terms[2], Append(at, 2)) ELSE <<>>)

\* Column.accept(visitor) of Aliased (its element), Literal, Field and
\* Expression (its one or two terms, in order): the positions of the columns
\* handed to the visitor, in the order visited
RECURSIVE accept(_, _)
accept(column, at) ==
    (IF Len(column.terms) >= 1 THEN accept(column.terms[1], Append(at, 1)) ELSE <<>>)
    \o (IF Len(column.terms) >= 2 THEN accept(column.terms[2], Append(at, 2)) ELSE <<>>)
    \o <<at>>

(***************************************************************************)
(* The SQL parser (forml/io/dsl/parser/sql.py).                            *)
(***************************************************************************)
Whitespace == {" ", "\n"}
Operators == {"-", "+", "*", "/", "%"}

\* chars starts with the given prefix
StartsWith(chars, prefix) ==
    Len(chars) >= Len(prefix) /\ SubSeq(chars, 1, Len(prefix)) = prefix

\* TIMESTAMP *'.+' and DATE *'.+': the keyword, spaces, a quoted text
Typed(chars, keyword) ==
    /\ StartsWith(chars, keyword)
    /\ \E open \in (Len(keyword) + 1)..(Len(chars) - 2) :
          /\ chars[open] = "'"
          /\ \A i \in (Len(keyword) + 1)..(open - 1) : chars[i] = " "
          /\ "\n" \notin Range(SubSeq(chars, open + 1, Len(chars) - 1))
    /\ Last(chars) = "'"

\* Expression.ASSOCIATIVE.fullmatch(arg): between optional whitespace, either
\* a run of characters free of operators and whitespace, or a run of
\* non-whitespace ending in "(" followed by such a character and closed by
\* a final ")", or a typed TIMESTAMP or DATE literal
fullmatch(arg) ==
    LET chars == Stripped(arg)
    IN \/ chars # <<>> /\ \A i \in DOMAIN chars : chars[i] \notin Operators \cup Whitespace
       \/ \E open \in DOMAIN chars :
             /\ chars[open] = "("
             /\ \A i \in 1..(open - 1) : chars[i] \notin Whitespace
             /\ \E first \in (open + 1)..(Len(chars) - 1) :
                   /\ \A i \in (open + 1)..(first - 1) : chars[i] \in Whitespace
                   /\ chars[first] \notin Operators \cup Whitespace
             /\ Last(chars) = ")"
             /\ "\n" \notin Range(SubSeq(chars, open + 1, Len(chars)))
       \/ Typed(chars, <<"T", "I", "M", "E", "S", "T", "A", "M", "P">>)
       \/ Typed(chars, <<"D", "A", "T", "E">>)

\* clean(arg) adding parentheses around every argument
cleanAlways(arg) == <<"(">> \o arg \o <<")">>

\* clean(arg): parentheses added unless the argument matches ASSOCIATIVE
clean(arg) == IF ~fullmatch(arg) THEN <<"(">> \o arg \o <<")">> ELSE arg

\* Parser.EXPRESSION: the template of the expression class, as the texts
\* before, between and after its arguments
EXPRESSION(type) ==
    CASE type = "Addition" -> <<<<>>, <<" ", "+", " ">>, <<>>>>
      [] type = "Subtraction" -> <<<<>>, <<" ", "-", " ">>, <<>>>>
      [] type = "Multiplication" -> <<<<>>, <<" ", "*", " ">>, <<>>>>
      [] type = "Division" -> <<<<>>, <<" ", "/", " ">>, <<>>>>
      [] type = "Modulus" -> <<<<>>, <<" ", "%", " ">>, <<>>>>
      [] type = "LessThan" -> <<<<>>, <<" ", "<", " ">>, <<>>>>
      [] type = "GreaterThan" -> <<<<>>, <<" ", ">", " ">>, <<>>>>
      [] type = "Equal" -> <<<<>>, <<" ", "=", " ">>, <<>>>>
      [] type = "And" -> <<<<>>, <<" ", "A", "N", "D", " ">>, <<>>>>
      [] type = "Or" -> <<<<>>, <<" ", "O", "R", " ">>, <<>>>>
      [] type = "Not" -> <<<<"N", "O", "T", " ">>, <<>>>>
      [] type = "Count" -> <<<<"c", "o", "u", "n", "t", "(">>, <<")">>>>

\* the mapper of the Count template: lambda c=None: [c if c is not None else '*']
CountMapper(args) == IF args = <<>> THEN <<<<"*">>>> ELSE args

\* Parser.Expression.__call__(*args): the mapper, clean on every argument,
\* the template filled
Format(type, arguments) ==
    LET args == IF type = "Count" THEN CountMapper(arguments) ELSE arguments
        template == EXPRESSION(type)
    IN IF Len(args) = 1 THEN template[1] \o clean(args[1]) \o template[2]
       ELSE template[1] \o clean(args[1]) \o template[2] \o clean(args[2]) \o template[3]

\* Parser.generate_expression(expression, arguments)
generate_expression(type, arguments) == Format(type, arguments)

\* Parser.generate_alias(column, alias)
generate_alias(sql, alias) == sql \o <<" ", "A", "S", " ">> \o alias

\* strftime with Parser.DATE = '%Y-%m-%d'
DateText(stamp) ==
    Padded(stamp[1], 4) \o <<"-">> \o Padded(stamp[2], 2) \o <<"-">> \o Padded(stamp[3], 2)

\* strftime with Parser.TIMESTAMP = '%Y-%m-%d %H:%M:%S.%f'
TimestampText(stamp) ==
    DateText(stamp) \o <<" ">> \o Padded(stamp[4], 2) \o <<":">> \o Padded(stamp[5], 2)
    \o <<":">> \o Padded(stamp[6], 2) \o <<".">> \o Padded(stamp[7], 6)

Generated(status, sql) == [status |-> status, sql |-> sql]

\* Parser.generate_literal(literal): the kinds tested in the order String,
\* Numeric, Timestamp, Date, Array; the elements of an array are the plain
\* Python values, which have no kind attribute
generate_literal(literal) ==
    IF ~IsColumn(literal) THEN Generated("AttributeError", <<>>)
    ELSE IF literal.kind = "String" THEN Generated("ok", <<"'">> \o str(literal.value) \o <<"'">>)
    ELSE IF literal.kind \in Numeric THEN Generated("ok", str(literal.value))
    ELSE IF literal.kind = "Timestamp"
    THEN Generated("ok", <<"T", "I", "M", "E", "S", "T", "A", "M", "P", " ", "'">> \o TimestampText(literal.value.stamp) \o <<"'">>)
    ELSE IF literal.kind = "Date"
    THEN Generated("ok", <<"D", "A", "T", "E", " ", "'">> \o DateText(literal.value.stamp) \o <<"'">>)
    ELSE IF literal.kind = "Array"
    THEN IF literal.value.items = <<>> THEN Generated("ok", <<"A", "R", "R", "A", "Y", "[", "]">>)
         ELSE Generated("AttributeError", <<>>)
    ELSE Generated("Unsupported", <<>>)

\* the parser visiting a column: every term generated before the column,
\* a field by its name, a literal by generate_literal, an expression by
\* generate_expression, an alias by generate_alias
RECURSIVE Generate(_)
Generate(column) ==
    LET arity == Len(column.terms)
        first == IF arity >= 1 THEN Generate(column.terms[1]) ELSE Generated("ok", <<>>)
        second == IF arity >= 2 THEN Generate(column.terms[2]) ELSE Generated("ok", <<>>)
        arguments == IF arity = 0 THEN <<>>
                     ELSE IF arity = 1 THEN <<first.sql>>
                     ELSE <<first.sql, second.sql>>
    IN IF first.status # "ok" THEN first
       ELSE IF second.status # "ok" THEN second
       ELSE CASE column.type = "Field" -> Generated("ok", column.name)
              [] column.type = "Literal" -> generate_literal(column)
              [] column.type = "Aliased" -> Generated("ok", generate_alias(first.sql, column.name))
              [] OTHER -> Generated("ok", generate_expression(column.type, arguments))

\* Parser.generate_query(source, columns, where, ...) with no grouping,
\* ordering or limit
generate_query(source, columns, where) ==
    LET Joined[i \in 1..Len(columns)] ==
            IF i = 1 THEN columns[1] ELSE Joined[i - 1] \o <<",", " ">> \o columns[i]
    IN <<"S", "E", "L", "E", "C", "T", " ">> \o Joined[Len(columns)] \o <<"\n", "F", "R", "O", "M", " ">> \o source
       \o (IF where # <<>> THEN <<"\n", "W", "H", "E", "R", "E", " ">> \o where ELSE <<>>)

(***************************************************************************)
(* The DSL as a state machine: a column composed with the operators of     *)
(* Element, then parsed or visited.                                        *)
(***************************************************************************)
FieldA == Field(<<"a">>, "Integer")
FieldB == Field(<<"b">>, "Integer")
FieldC == Field(<<"c">>, "Float")
FieldD == Field(<<"d">>, "Decimal")

\* the columns and the condition of the query T.select(a + b * 2).where((a > 1) & (b < 3))
Doubled == Bivariate("Addition", FieldA, Bivariate("Multiplication", FieldB, PyInt(2)))
Within == Bivariate("And", Bivariate("GreaterThan", FieldA, PyInt(1)),
                    Bivariate("LessThan", FieldB, PyInt(3)))
Sum == Bivariate("Addition", FieldA, FieldB)

Literals ==
    {Literal(PyStr(<<"x">>)), Literal(PyInt(2)), Literal(PyFloat(1500)), Literal(PyBool(TRUE)),
     Literal(PyDate(<<2024, 6, 1>>)), Literal(PyDatetime(<<2024, 6, 1, 1, 2, 3, 4>>)),
     Literal(PyList(<<PyInt(1), PyInt(2)>>)), Literal(PyList(<<>>))}

\* the columns a client starts from
Initial == {FieldA, FieldD, Field(<<"f">>, "Boolean"), Expression("Count", <<>>), Doubled, Within, Sum} \cup Literals

\* the right operands of the operators: a Python value and columns
Operands == {PyInt(2), FieldC, Univariate("Count", FieldB), Sum}

Blank == [op |-> "idle", status |-> "ok", sql |-> <<>>, where |-> <<>>, visits |-> <<>>, built |-> 0]

Built(op) == [Blank EXCEPT !.op = op, !.built = parsed.built + 1]

\* column <operator> other, through Element.__add__, __mul__, __gt__, __and__
Operate(type, other) ==
    /\ parsed.built < MaxOps
    /\ subject.type # "Aliased"
    /\ subject' = Bivariate(type, subject, other)
    /\ parsed' = Built("operate")
    /\ UNCHANGED <<flowVars, assetVars, runVars, foldVars>>

\* ~column, through Element.__invert__
Invert ==
    /\ parsed.built < MaxOps
    /\ subject.type # "Aliased"
    /\ subject' = Univariate("Not", subject)
    /\ parsed' = Built("invert")
    /\ UNCHANGED <<flowVars, assetVars, runVars, foldVars>>

\* Count(column)
Counting ==
    /\ parsed.built < MaxOps
    /\ subject.type # "Aliased"
    /\ subject' = Univariate("Count", subject)
    /\ parsed' = Built("count")
    /\ UNCHANGED <<flowVars, assetVars, runVars, foldVars>>

\* column.alias(alias), through Element.alias
Alias(alias) ==
    /\ parsed.built < MaxOps
    /\ subject.type # "Aliased"
    /\ subject' = Aliased(subject, alias)
    /\ parsed' = Built("alias")
    /\ UNCHANGED <<flowVars, assetVars, runVars, foldVars>>

\* the parser generating the subject
Parse ==
    /\ parsed.op # "parse"
    /\ LET generated == Generate(subject)
       IN parsed' = [Blank EXCEPT !.op = "parse", !.status = generated.status,
                                  !.sql = generated.sql, !.built = parsed.built]
    /\ UNCHANGED subject
    /\ UNCHANGED <<flowVars, assetVars, runVars, foldVars>>

\* the parser generating the query selecting the subject from table T,
\* with or without the condition Within
Select(condition) ==
    /\ parsed.op # "select"
    /\ LET generated == Generate(subject)
           where == IF condition THEN Generate(Within).sql ELSE <<>>
       IN parsed' = [Blank EXCEPT !.op = "select", !.status = generated.status,
                                  !.where = where, !.built = parsed.built,
                                  !.sql = IF generated.status = "ok"
                                          THEN generate_query(<<"T">>, <<generated.sql>>, where)
                                          ELSE <<>>]
    /\ UNCHANGED subject
    /\ UNCHANGED <<flowVars, assetVars, runVars, foldVars>>

\* column.accept(visitor) with a visitor recording the columns it is handed
Accept ==
    /\ parsed.op # "accept"
    /\ parsed' = [Blank EXCEPT !.op = "accept", !.visits = accept(subject, <<>>),
                               !.built = parsed.built]
    /\ UNCHANGED subject
    /\ UNCHANGED <<flowVars, assetVars, runVars, foldVars>>

InitDsl ==
    /\ subject = FieldA
    /\ parsed = Blank


(***************************************************************************)
(* Crossvalidated.compose (forml/stdlib/operator/folding): the head        *)
(* segment, the splitter, its forks, the builder and the folds.            *)
(***************************************************************************)
\* bound of the folding model: the highest number of splits of the crossvalidator
MaxFolds == 4

\* the numbers of workers an expanded left segment is made of
Widths == {1, 2}

\* range(n) counting one fold more
rangeInclusive(n) == [i \in 1..(n + 1) |-> i - 1]
\* range(self.nsplits): the fold indexes in the order of the loop
range(n) == [i \in 1..n |-> i - 1]

\* node.Future(): a placeholder head
Future == Worker(1, 1)

\* pipeline.Segment(): three paths, each on a future of its own
Segment(first) == [apply |-> first, train |-> first + 1, label |-> first + 2]

\* left.expand(): a segment of width workers created for this call
expand(nd, width) ==
    [nodes |-> nd \o [i \in 1..width |-> Worker(1, 1)],
     segment |-> (Len(nd) + 1)..(Len(nd) + width)]

Composing == [pc |-> "idle", nsplits |-> 0, width |-> 1, head |-> Segment(None),
              splitter |-> None, features |-> None, labels |-> None,
              builder |-> {}, inner |-> {}, fold |-> 0, calls |-> <<>>]

\* head: pipeline.Segment = pipeline.Segment()
ComposeHead ==
    /\ folding.pc = "head"
    /\ nodes' = nodes \o <<Future, Future, Future>>
    /\ folding' = [folding EXCEPT !.pc = "splitter", !.head = Segment(Len(nodes) + 1)]
    /\ UNCHANGED <<subs, p, res, edits, pc>>
    /\ UNCHANGED <<assetVars, runVars, dslVars>>

\* splitter = node.Worker(self.splitter, 1, 2 * self.nsplits)
ComposeSplitter ==
    /\ folding.pc = "splitter"
    /\ nodes' = Append(nodes, Worker(1, 2 * folding.nsplits))
    /\ folding' = [folding EXCEPT !.pc = "train", !.splitter = Len(nodes) + 1]
    /\ UNCHANGED <<subs, p, res, edits, pc>>
    /\ UNCHANGED <<assetVars, runVars, dslVars>>

\* splitter.train(head.train.publisher, head.label.publisher)
ComposeTrain ==
    /\ folding.pc = "train"
    /\ subs' = subs \cup {Subscription(folding.head.train, 0, folding.splitter, Train),
                          Subscription(folding.head.label, 0, folding.splitter, Label)}
    /\ folding' = [folding EXCEPT !.pc = "features"]
    /\ UNCHANGED <<nodes, p, res, edits, pc>>
    /\ UNCHANGED <<assetVars, runVars, dslVars>>

\* features = splitter.fork(); features[0].subscribe(head.train.publisher)
ComposeFeatures ==
    /\ folding.pc = "features"
    /\ nodes' = Append(nodes, nodes[folding.splitter])
    /\ subs' = subs \cup {Subscription(folding.head.train, 0, Len(nodes) + 1, Apply(0))}
    /\ folding' = [folding EXCEPT !.pc = "labels", !.features = Len(nodes) + 1]
    /\ UNCHANGED <<p, res, edits, pc>>
    /\ UNCHANGED <<assetVars, runVars, dslVars>>

\* labels = splitter.fork(); labels[0].subscribe(head.label.publisher)
ComposeLabels ==
    /\ folding.pc = "labels"
    /\ nodes' = Append(nodes, nodes[folding.splitter])
    /\ subs' = subs \cup {Subscription(folding.head.label, 0, Len(nodes) + 1, Apply(0))}
    /\ folding' = [folding EXCEPT !.pc = "builder", !.labels = Len(nodes) + 1]
    /\ UNCHANGED <<p, res, edits, pc>>
    /\ UNCHANGED <<assetVars, runVars, dslVars>>

\* builder = self.builder(head, left.expand())
ComposeBuilder ==
    /\ folding.pc = "builder"
    /\ LET inner == expand(nodes, folding.width)
       IN /\ nodes' = inner.nodes
          /\ folding' = [folding EXCEPT
                 !.pc = "for", !.builder = inner.segment,
                 !.calls = Append(@, [call |-> "builder", fold |-> None, inner |-> inner.segment])]
    /\ UNCHANGED <<subs, p, res, edits, pc>>
    /\ UNCHANGED <<assetVars, runVars, dslVars>>

\* for fold in range(self.nsplits): inner = left.expand()
ComposeExpand ==
    /\ folding.pc = "for"
    /\ folding.fold < Len(range(folding.nsplits))
    /\ LET inner == expand(nodes, folding.width)
       IN /\ nodes' = inner.nodes
          /\ folding' = [folding EXCEPT !.pc = "fold", !.fold = @ + 1, !.inner = inner.segment]
    /\ UNCHANGED <<subs, p, res, edits, pc>>
    /\ UNCHANGED <<assetVars, runVars, dslVars>>

\* self.fold(fold, builder, inner, features, labels), the method of the
\* subclass, returning or raising
ComposeFold(raised) ==
    /\ folding.pc = "fold"
    /\ folding' = [folding EXCEPT
           !.pc = IF raised THEN "raised" ELSE "for",
           !.calls = Append(@, [call |-> "fold", fold |-> range(folding.nsplits)[folding.fold],
                                inner |-> folding.inner])]
    /\ UNCHANGED flowVars
    /\ UNCHANGED <<assetVars, runVars, dslVars>>

\* return builder.build()
ComposeBuild ==
    /\ folding.pc = "for"
    /\ folding.fold >= Len(range(folding.nsplits))
    /\ folding' = [folding EXCEPT
           !.pc = "done",
           !.calls = Append(@, [call |-> "build", fold |-> None, inner |-> folding.builder])]
    /\ UNCHANGED flowVars
    /\ UNCHANGED <<assetVars, runVars, dslVars>>

InitFold ==
    folding = Composing

Init ==
    /\ \E f \in Flows : nodes = f.nodes /\ subs = f.subs
    /\ InitFlow
    /\ InitAsset
    /\ registry = Registry({}, {}, <<>>)
    /\ InitRun
    /\ InitDsl
    /\ InitFold

Build(prevent) ==
    \/ \E szin \in Sizes, szout \in Sizes : NewWorker(szin, szout)
    \/ \E node \in NodeIds, pub \in NodeIds, idx \in 0..1,
          port \in Ports(2) : Subscribe(node, port, pub, idx, prevent)

Next ==
    \/ Build(TRUE)
    \/ \E head \in NodeIds, t \in {None} \cup NodeIds : NewPath(head, t)
    \/ \E right \in RightPaths, t \in {None} \cup NodeIds : Extend(right, t)
    \/ \E node \in NodeIds, port \in Ports(2) : Publish(node, port)
    \/ Copy

Spec == Init /\ [][Next]_vars


\* Composition of two segments: paths are constructed over the segments,
\* wired to Train and Label ports and extended by one another.
InitCompose ==
    /\ nodes = Pair.nodes /\ subs = Pair.subs
    /\ InitFlow
    /\ InitAsset
    /\ registry = Registry({}, {}, <<>>)
    /\ InitRun
    /\ InitDsl
    /\ InitFold

SpecCompose == InitCompose /\ [][Next]_vars


\* Crossvalidated.compose on its own, for a crossvalidator of any number of
\* splits and a left operator expanding to segments of any width.
InitFolding ==
    /\ nodes = Empty.nodes /\ subs = Empty.subs
    /\ InitFlow
    /\ InitAsset
    /\ registry = Registry({}, {}, <<>>)
    /\ InitRun
    /\ InitDsl
    /\ \E nsplits \in 0..MaxFolds, width \in Widths :
          folding = [Composing EXCEPT !.pc = "head", !.nsplits = nsplits, !.width = width]

NextFolding ==
    \/ ComposeHead
    \/ ComposeSplitter
    \/ ComposeTrain
    \/ ComposeFeatures
    \/ ComposeLabels
    \/ ComposeBuilder
    \/ ComposeExpand
    \/ \E raised \in BOOLEAN : ComposeFold(raised)
    \/ ComposeBuild

SpecFolding == InitFolding /\ [][NextFolding]_vars

\* Flows wired without the cycle prevention of subscribe: the path
\* constructor is handed graphs that may hold a cycle of subscriptions.
NextRaw ==
    \/ Build(FALSE)
    \/ \E head \in NodeIds, t \in {None} \cup NodeIds : NewPath(head, t)
    \/ PathAccept

SpecRaw == Init /\ [][NextRaw]_vars

\* The asset directory on its own: tags, generation keys and tag lookups
\* against a registry, with no flow composed.
InitAssets ==
    /\ nodes = Empty.nodes /\ subs = Empty.subs
    /\ InitFlow
    /\ InitAsset
    /\ registry \in Registries
    /\ InitRun
    /\ InitDsl
    /\ InitFold

NextAssets ==
    \/ \E training \in {Training(ts, o) : ts \in {NoTimestamp} \cup Timestamps, o \in Ordinals},
          tuning \in {Tuning(ts, sc) : ts \in {NoTimestamp} \cup Timestamps, sc \in Scores},
          states \in SeqsUpTo(UUIDs, MaxStates) : NewTag(training, tuning, states)
    \/ Dumps
    \/ Loads
    \/ \E value \in KeyValues : NewKey(value)
    \/ KeyNext
    \/ \E kwargs \in Replacements : Replace(kwargs)
    \/ \E field \in {"training", "tuning"} :
          \E kwargs \in ModeReplacements(field) : ModeReplace(field, kwargs)
    \/ \E field \in {"training", "tuning"}, timestamp \in Triggers :
          Trigger(field, timestamp, Now)
    \/ \E project \in 1..2, lineage \in 0..2, generation \in 0..2 :
          Tagging(Level(project, lineage, generation))

SpecAssets == InitAssets /\ [][NextAssets]_vars

\* The runner over the asset directory: training, applying and evaluating
\* runs of a project against the registry.
InitRunner ==
    /\ nodes = Empty.nodes /\ subs = Empty.subs
    /\ InitFlow
    /\ InitAsset
    /\ registry \in Registries
    /\ descriptor \in Projects
    /\ run = Rest
    /\ InitDsl
    /\ InitFold

NextRunner ==
    \/ RunTrain
    \/ \E lower \in Bounds, upper \in Bounds : RunApply(lower, upper)
    \/ \E lower \in Bounds, upper \in Bounds : RunCvscore(lower, upper)

SpecRunner == InitRunner /\ [][NextRunner]_vars

\* The DSL on its own: columns composed, parsed to SQL and visited.
InitColumns ==
    /\ nodes = Empty.nodes /\ subs = Empty.subs
    /\ InitFlow
    /\ InitAsset
    /\ registry = Registry({}, {}, <<>>)
    /\ InitRun
    /\ subject \in Initial
    /\ parsed = Blank
    /\ InitFold

NextColumns ==
    \/ \E type \in {"Addition", "Multiplication", "And"}, other \in Operands :
          Operate(type, other)
    \/ Invert
    \/ Counting
    \/ \E alias \in {<<"z">>} : Alias(alias)
    \/ Parse
    \/ \E condition \in BOOLEAN : Select(condition)
    \/ Accept

SpecColumns == InitColumns /\ [][NextColumns]_vars

(***************************************************************************)
(* Properties of the path algebra.                                         *)
(***************************************************************************)
\* the nodes with no apply subscriber that are apply-reachable from head
Terminals(g, head) == {n \in ApplyReach(g, {head}, {}) : ApplySubscribers(g, n) = {}}

\* a cycle of apply subscriptions is reachable from head
CycleReachable(g, head) ==
    \E n \in ApplyReach(g, {head}, {}) : n \in ApplyReach(g, ApplySubscribers(g, n), {})

SimpleHead(n) == nodes[n].szin \in {0, 1}
SimpleTail(n) == nodes[n].szout \in {0, 1}

HasSink(g, n) == \E s \in g : s.pub = n /\ IsSink(s.port)

\* C1: Path(head) with no explicit tail fails with 'Ambiguous tail' whenever
\* more than one terminal apply node is apply-reachable from head, at any
\* depth, and returns the terminal node as the tail when there is exactly one.
C1_AmbiguousTailAtAnyDepth ==
    (res.op = "new" /\ res.tail = None /\ SimpleHead(res.head)) =>
        LET terminals == Terminals(subs, res.head) IN
            /\ Cardinality(terminals) > 1 => res.status = "Ambiguous tail"
            /\ (Cardinality(terminals) = 1 /\ res.status = "ok") => res.path.tail \in terminals

C3_ClosureNotExtendable ==
    (res.op = "extend" /\ p.cls = "Closure") =>
        /\ subs = res.before
        /\ IF res.right # NoPath \/ (res.tail # None /\ res.tail # p.tail)
           THEN res.status = "Connecting closure path"
           ELSE /\ res.status = "ok"
                /\ res.path.head = p.head
                /\ res.path.tail = p.tail

C3_Witness ==
    /\ res.op = "extend" /\ p.cls = "Closure"
    /\ res.right # NoPath
    /\ res.status = "Connecting closure path"

\* C4: a constructed path is a Closure exactly when some output subscription
\* of its tail is to a Train or Label port and a Channel otherwise, and its
\* head has szin and its tail szout in {0, 1}.
C4_Classification ==
    res.op = "new" =>
        /\ ~ SimpleHead(res.head) => res.status = "Simple head required"
        /\ res.status = "ok" =>
            /\ SimpleHead(res.path.head)
            /\ SimpleTail(res.path.tail)
            /\ res.path.cls = "Closure" <=> HasSink(subs, res.path.tail)
            /\ res.path.cls = "Channel" <=> ~ HasSink(subs, res.path.tail)

C4_Witness ==
    /\ res.op = "new" /\ res.status = "ok"
    /\ res.path.cls = "Closure"
    /\ \E s \in subs : s.pub = res.path.tail /\ s.port = Label

\* C5: the publisher of a Closure path rejects every Apply port subscription
\* with 'Closure path publishing' and records nothing; a Train or Label
\* subscription is recorded on output 0 of the tail.
C5_ClosurePublishing ==
    (res.op = "publish" /\ p.cls = "Closure") =>
        /\ IsApply(res.port) => (res.status # "ok" /\ subs = res.before)
        /\ subscribe(res.before, p.tail, 0, res.node, res.port) = "ok" =>
            IF IsApply(res.port)
            THEN res.status = "Closure path publishing"
            ELSE /\ res.status = "ok"
                 /\ subs = res.before \cup {Subscription(p.tail, 0, res.node, res.port)}

C5_Witness ==
    /\ res.op = "publish" /\ p.cls = "Closure"
    /\ IsApply(res.port)
    /\ res.status = "Closure path publishing"

\* the nodes on the apply chains from head to tail
ChainNodes(g, head, t) ==
    {n \in ApplyReach(g, {head}, {}) : t \in ApplyReach(g, {n}, {})}

\* C6: p.copy() succeeds for every path p, and the copy consists of fresh
\* nodes in bijection with the nodes on the head to tail apply chains of p,
\* with exactly the apply subscriptions between them.
C6_CopyIsomorphic ==
    res.op = "copy" =>
        LET chain == ChainNodes(res.before, p.head, p.tail)
            fresh == (res.node + 1)..Len(nodes)
            image(n) == res.node + Cardinality({m \in chain : m <= n})
        IN /\ res.status = "ok"
           /\ Cardinality(fresh) = Cardinality(chain)
           /\ res.path.head = image(p.head) /\ res.path.tail = image(p.tail)
           /\ {s \in subs : IsApply(s.port) /\ (s.pub \in fresh \/ s.node \in fresh)}
                = {Subscription(image(s.pub), s.idx, image(s.node), s.port)
                   : s \in {x \in res.before : IsApply(x.port) /\ x.pub \in chain
                                                 /\ x.node \in chain}}

\* C7: the path returned by p.copy() carries no Train or Label subscription
\* on any of its nodes, so the copy is a Channel.
C7_CopyHasNoSinks ==
    (res.op = "copy" /\ res.status = "ok") =>
        /\ ~ \E s \in subs : IsSink(s.port) /\ (s.pub > res.node \/ s.node > res.node)
        /\ res.path.cls = "Channel"

(***************************************************************************)
(* Properties of the asset directory.                                      *)
(***************************************************************************)
Null == <<"n", "u", "l", "l">>

IntegerSpellings == {<<"3">>, <<" ", "2", " ">>, <<"1", "_", "0">>, <<"-", "2">>, <<"0">>}

NonInteger(value) ==
    \/ value.type \in {"NoneType", "bool", "float"}
    \/ value.type = "str" /\ value.chars \notin IntegerSpellings

KeyInvalid == {"Invalid key (not an integer)", "Invalid key (not natural)"}

\* C9: the next of a key n >= 1 is the key n + 1; making a key of an integer
\* below 1 or of a value that is no integer raises Key.Invalid; every key
\* held is at least 1.
C9_KeyNext ==
    /\ key >= 1
    /\ out.op = "next" =>
        /\ out.status = "ok"
        /\ out.key = out.from + 1
        /\ key = out.key
    /\ out.op = "key" =>
        /\ (out.value.type = "int" /\ out.value.int < 1) => out.status \in KeyInvalid
        /\ NonInteger(out.value) => out.status \in KeyInvalid
        /\ (out.value.type = "int" /\ out.value.int >= 1) =>
               (out.status = "ok" /\ out.key = out.value.int)

C9_Witness ==
    /\ out.op = "next" /\ out.from > 1
    /\ out.status = "ok" /\ key = out.from + 1

Resolves(explicit, listing) == IF explicit = None THEN listing # {} ELSE explicit \in listing

\* C10: Level.tag returns NOTAG, a falsy tag with no timestamp and no states,
\* without any TAGS read when the implicit generation key finds the lineage
\* empty; when the project key or the lineage key cannot be resolved the
\* failure reaches the caller and no tag is returned.
C10_NoTagForEmptyLineage ==
    out.op = "tag" =>
        LET project == Resolves(out.level.project, registry.projects)
            lineage == Resolves(out.level.lineage, registry.lineages)
        IN /\ (project /\ lineage /\ out.level.generation = None /\ registry.generations = <<>>) =>
                /\ out.status = "ok" /\ out.returned
                /\ out.tag = NOTAG /\ out.reads = 0
                /\ ~ TagBool(out.tag)
                /\ out.tag.training.timestamp = NoTimestamp
                /\ out.tag.tuning.timestamp = NoTimestamp
                /\ out.tag.states = <<>>
           /\ ~ (project /\ lineage) =>
                /\ out.status \in {"Listing.Empty", "Level.Invalid"}
                /\ ~ out.returned
                /\ out.reads = 0

C10_Witness ==
    /\ out.op = "tag" /\ out.level.generation = None
    /\ registry.lineages # {} /\ registry.generations = <<>>
    /\ out.returned /\ out.tag = NOTAG /\ out.reads = 0

(***************************************************************************)
(* Properties of the runner.                                               *)
(***************************************************************************)
\* the calls of the trace made on the given collaborator
Calls(trace, call) == {i \in DOMAIN trace : trace[i].call = call}

\* the tag of the latest generation of the lineage
Latest(reg) == LevelTag(reg, Level(1, None, None)).tag

C16_BoundsForwarded ==
    /\ (run.op = "train" /\ run.trace # <<>>)
       => \A i \in Calls(run.trace, "load") :
             /\ run.trace[i].lower = IF run.lower = PyNone
                                     THEN Latest(run.before).training.ordinal
                                     ELSE run.lower
             /\ run.trace[i].upper = run.upper
    /\ run.op = "apply"
       => \A i \in Calls(run.trace, "load") :
             run.trace[i].lower = run.lower /\ run.trace[i].upper = run.upper

\* C17: Runner.cvscore of a project with no evaluation segment fails with
\* 'Project not evaluable' having loaded no feed, built no composition and
\* run nothing; with an evaluation segment it runs exactly once, the train
\* track of the composition of pipeline >> evaluation, with no state handle.
C17_Cvscore ==
    run.op = "cvscore"
    => IF ~descriptor.evaluation
       THEN run.status = "Project not evaluable" /\ run.trace = <<>>
       ELSE /\ run.status = "ok"
            /\ Cardinality(Calls(run.trace, "run")) = 1
            /\ Cardinality(Calls(run.trace, "load")) = 1
            /\ \A i \in Calls(run.trace, "load") :
                  run.trace[i].lower = run.lower /\ run.trace[i].upper = run.upper
            /\ \A i \in Calls(run.trace, "expand") : run.trace[i].what = "pipeline >> evaluation"
            /\ Calls(run.trace, "expand") # {}
            /\ \A i \in Calls(run.trace, "generate") \cup Calls(run.trace, "run") :
                  /\ run.trace[i].what = "train"
                  /\ ~run.trace[i].handle.given
                  /\ \A j \in Calls(run.trace, "load") \cup Calls(run.trace, "compose") : j < i

C17_Witness ==
    /\ run.op = "cvscore"
    /\ ~descriptor.evaluation
    /\ run.status = "Project not evaluable"
    /\ run.lower # PyNone

\* the fields of a tag holding no mode
NonMode == {"states"}

\* C18: Tag.replace raises ValueError('Invalid replacement') when a keyword
\* names a mode field (training, tuning) or a field the tag does not have,
\* and the tag is left as it was; replace(states=s) returns a tag with the
\* states s and the training and tuning modes of the original.
C18_TagReplace ==
    out.op = "replace"
    => IF DOMAIN out.kwargs \subseteq NonMode
       THEN /\ out.status = "ok"
            /\ out.tag.training = tag.training /\ out.tag.tuning = tag.tuning
            /\ out.tag.states = IF "states" \in DOMAIN out.kwargs THEN out.kwargs.states
                                ELSE tag.states
       ELSE out.status = "Invalid replacement" /\ out.tag = tag

C18_Witness ==
    /\ out.op = "replace"
    /\ "training" \in DOMAIN out.kwargs
    /\ out.status = "Invalid replacement"
    /\ TagBool(tag)

(***************************************************************************)
(* Properties of the DSL and its SQL parser.                               *)
(***************************************************************************)
\* a column generated as a single identifier, a single function call or a
\* literal
Atomic(column) == column.type \in {"Field", "Literal", "Count"}

\* the operand fragment the parenthesization rule asks for
Operand(column) ==
    IF Atomic(column) THEN Generate(column).sql
    ELSE <<"(">> \o Generate(column).sql \o <<")">>

\* C12 (as claimed): in the SQL generated for an expression of two operands,
\* an operand is left without parentheses only when it is a single
\* identifier, a single function call or a literal; every other (composite)
\* operand is wrapped in parentheses, so that the text read under the SQL
\* precedence is the expression.
C12_OperandsParenthesized ==
    (/\ parsed.op = "parse" /\ parsed.status = "ok"
     /\ subject.type \in {"Addition", "Multiplication", "GreaterThan", "LessThan", "And"})
    => parsed.sql = Operand(subject.terms[1]) \o EXPRESSION(subject.type)[2]
                    \o Operand(subject.terms[2])

\* C13 (as claimed): the query selecting a + b * 2 from T under the
\* condition (a > 1) & (b < 3) is generated as
\* 'SELECT a + b * 2', 'FROM T', 'WHERE (a > 1) AND (b < 3)'.
C13_QueryMinimal ==
    (parsed.op = "select" /\ subject = Doubled /\ parsed.where # <<>>)
    => parsed.sql = <<"S", "E", "L", "E", "C", "T", " ", "a", " ", "+", " ", "b", " ", "*", " ", "2", "\n", "F", "R", "O", "M", " ", "T", "\n", "W", "H", "E", "R", "E", " ", "(", "a", " ", ">", " ", "1", ")", " ", "A", "N", "D", " ", "(", "b", " ", "<", " ", "3", ")">>

\* C13 (amended): the query selecting a + b * 2 from T under the condition
\* (a > 1) & (b < 3) is generated as
\* 'SELECT a + (b * 2)', 'FROM T', 'WHERE (a > 1) AND (b < 3)': the product
\* operand and both comparison operands are wrapped in parentheses.
C13_QueryParenthesized ==
    (parsed.op = "select" /\ subject = Doubled /\ parsed.where # <<>>)
    => /\ parsed.status = "ok"
       /\ parsed.sql = <<"S", "E", "L", "E", "C", "T", " ", "a", " ", "+", " ", "(", "b", " ", "*", " ", "2", ")", "\n", "F", "R", "O", "M", " ", "T", "\n", "W", "H", "E", "R", "E", " ", "(", "a", " ", ">", " ", "1", ")", " ", "A", "N", "D", " ", "(", "b", " ", "<", " ", "3", ")">>

C13_Witness ==
    /\ parsed.op = "select"
    /\ subject = Doubled
    /\ parsed.where = <<"(", "a", " ", ">", " ", "1", ")", " ", "A", "N", "D", " ", "(", "b", " ", "<", " ", "3", ")">>
    /\ parsed.status = "ok"

\* C14 (as claimed): Count with no argument is generated as 'count(*)' and
\* Count(c) as 'count(' followed by the generated c and ')'.
C14_Count ==
    (parsed.op = "parse" /\ parsed.status = "ok" /\ subject.type = "Count")
    => parsed.sql = IF subject.terms = <<>> THEN <<"c", "o", "u", "n", "t", "(", "*", ")">>
                    ELSE <<"c", "o", "u", "n", "t", "(">> \o Generate(subject.terms[1]).sql \o <<")">>

\* the text claimed for a Python value as a literal: quoted strings, bare
\* numbers, typed dates and timestamps, arrays of the texts of their items
RECURSIVE LiteralText(_)
LiteralText(value) ==
    CASE value.type = "str" -> <<"'">> \o value.chars \o <<"'">>
      [] value.type \in {"int", "float"} -> str(value)
      [] value.type = "date" -> <<"D", "A", "T", "E", " ", "'">> \o DateText(value.stamp) \o <<"'">>
      [] value.type = "datetime" -> <<"T", "I", "M", "E", "S", "T", "A", "M", "P", " ", "'">> \o TimestampText(value.stamp) \o <<"'">>
      [] value.type = "list" ->
            IF value.items = <<>> THEN <<"A", "R", "R", "A", "Y", "[", "]">>
            ELSE IF Len(value.items) = 1 THEN <<"A", "R", "R", "A", "Y", "[">> \o LiteralText(value.items[1]) \o <<"]">>
            ELSE <<"A", "R", "R", "A", "Y", "[">> \o LiteralText(value.items[1]) \o <<",", " ">>
                 \o LiteralText(value.items[2]) \o <<"]">>
      [] OTHER -> <<>>

\* C15 (as claimed): generate_literal gives the quoted value of a String,
\* the bare value of a number, DATE '...' of a Date, TIMESTAMP '...' of a
\* Timestamp and ARRAY[...] of the items of an Array, each generated the same
\* way and joined by ', '; a literal of any other kind fails as unsupported.
C15_Literals ==
    (parsed.op = "parse" /\ subject.type = "Literal")
    => IF subject.kind \in {"String", "Integer", "Float", "Decimal", "Date", "Timestamp", "Array"}
       THEN parsed.status = "ok" /\ parsed.sql = LiteralText(subject.value)
       ELSE parsed.status = "Unsupported"

\* C19 (as claimed): every And, Or and Not that was constructed has kind
\* Boolean and operands of kind Boolean only.
C19_LogicalOperands ==
    subject.type \in {"And", "Or", "Not"}
    => /\ subject.kind = "Boolean"
       /\ \A i \in DOMAIN subject.terms : subject.terms[i].kind = "Boolean"

\* the positions of the columns of a tree: the path of term indexes from the root
RECURSIVE Positions(_, _)
Positions(column, at) ==
    {at} \cup UNION {Positions(column.terms[i], Append(at, i)) : i \in DOMAIN column.terms}

\* position above is a proper ancestor of position below
Ancestor(above, below) ==
    Len(above) < Len(below) /\ SubSeq(below, 1, Len(above)) = above

\* position left lies in a term to the left of the term holding position right
LeftOf(left, right) ==
    \E k \in 1..Len(left) :
        /\ k <= Len(right)
        /\ SubSeq(left, 1, k - 1) = SubSeq(right, 1, k - 1)
        /\ left[k] < right[k]

RECURSIVE Leaves(_)
Leaves(column) ==
    IF column.type \in ArithmeticTypes
    THEN UNION {Leaves(column.terms[i]) : i \in DOMAIN column.terms}
    ELSE {column.kind}

\* C21: the kind of an arithmetic expression over numeric operands a and b
\* is the one of a.kind and b.kind of the higher cardinality, the kind of a
\* when the cardinalities are equal, and so the kind of the root of nested
\* arithmetic expressions is the kind of the highest cardinality among the
\* leaves.
C21_ArithmeticKind ==
    (subject.type \in ArithmeticTypes /\ Leaves(subject) \subseteq Numeric)
    => LET a == subject.terms[1]
           b == subject.terms[2]
       IN /\ subject.kind = IF cardinality(b.kind) > cardinality(a.kind) THEN b.kind ELSE a.kind
          /\ subject.kind \in Leaves(subject)
          /\ \A kind \in Leaves(subject) : cardinality(kind) <= cardinality(subject.kind)

C21_Witness ==
    /\ subject.type \in ArithmeticTypes
    /\ subject.terms[1].type \in ArithmeticTypes
    /\ subject.terms[1].terms[1].kind = "Integer"
    /\ subject.terms[1].terms[2].kind = "Float"
    /\ subject.terms[2].kind = "Integer"
    /\ subject.kind = "Float"

\* the other mode field of a tag
Other(field) == IF field = "training" THEN "tuning" ELSE "training"

\* the attribute a mode carries next to its timestamp
Attribute(field) == IF field = "training" THEN "ordinal" ELSE "score"

\* C27 (as claimed): tag.<mode>.trigger(ts) returns a tag in which that mode
\* has all its attributes reset (no ordinal, no score) and its timestamp set
\* to ts, or to the current time when ts is omitted, while the other mode and
\* the states are those of the original tag, which is left as it was.
C27_TriggerResets ==
    out.op = "trigger"
    => /\ out.tag[out.mode].timestamp =
              (IF out.kwargs.timestamp # NoTimestamp THEN out.kwargs.timestamp
               ELSE out.kwargs.utcnow)
       /\ out.tag[out.mode][Attribute(out.mode)] = PyNone
       /\ out.tag[Other(out.mode)] = tag[Other(out.mode)]
       /\ out.tag.states = tag.states

\* C28 (as claimed): for every tag t, with or without a timestamp on the
\* mode, t.training.replace(**kw) and t.tuning.replace(**kw) return a tag in
\* which each attribute named in kw has the given value on that mode, while
\* every other attribute of that mode, the other mode and the states are
\* those of t, which is left as it was.
C28_ModeReplace ==
    out.op = "mode"
    => /\ \A k \in DOMAIN tag[out.mode] :
             out.tag[out.mode][k] = IF k \in DOMAIN out.kwargs THEN out.kwargs[k]
                                    ELSE tag[out.mode][k]
       /\ out.tag[Other(out.mode)] = tag[Other(out.mode)]
       /\ out.tag.states = tag.states

(***************************************************************************)
(* Properties of explicit tails, extension and traversal of paths.         *)
(***************************************************************************)
\* C23 (as claimed): Path(head, tail=t) with an explicit tail, a simple head
\* and a simple t returns a path whose tail is t if and only if t is head or
\* is reachable from head over apply subscriptions, however many terminal
\* apply nodes the other branches end in; when t is not reachable the
\* construction fails and never returns a path whose tail differs from t.
C23_ExplicitTail ==
    (/\ res.op = "new" /\ res.tail # None
     /\ nodes[res.head].szin \in {0, 1} /\ nodes[res.tail].szout \in {0, 1})
    => /\ (res.status = "ok" /\ res.path.tail = res.tail)
              <=> res.tail \in ApplyReach(res.before, {res.head}, {})
       /\ res.status = "ok" => res.path.tail = res.tail

C22_ExtendOnlyWithoutSinks ==
    (res.op = "extend" /\ res.right # NoPath /\ res.status = "ok")
    => ~ HasSink(res.before, p.tail)

RECURSIVE Reach(_, _, _)
\* nodes reachable from the frontier over the subscriptions of g, of any
\* port (frontier included)
Reach(g, frontier, seen) ==
    IF frontier \subseteq seen THEN seen
    ELSE Reach(g, UNION {{s.node : s \in output(g, n)} : n \in frontier}, seen \cup frontier)

\* a cycle of subscriptions of g is reachable from head
Cyclic(g, head) ==
    \E n \in Reach(g, {head}, {}) : n \in Reach(g, {s.node : s \in output(g, n)}, {})

\* the subscriptions of g without those made by the given ports of node t
Cut(g, t, sinks) == {s \in g : ~(s.pub = t /\ IsSink(s.port) = sinks)}

\* C24 (as claimed): visit_path(head, tail) visits head, the apply
\* successors reachable from head and the Train/Label subscribers of every
\* visited node other than the tail; the Train/Label subscribers of the tail
\* are left out of the traversal.
C24_TailSinksExcluded ==
    res.op = "accept"
    => /\ Reach(Cut(Cut(subs, p.tail, TRUE), p.tail, FALSE), {p.head}, {}) \subseteq Range(res.visits)
       /\ Range(res.visits) \subseteq Reach(Cut(subs, p.tail, TRUE), {p.head}, {})

\* C24 (amended): visit_path(head, tail) visits exactly head and the nodes
\* reachable from it over the subscriptions, of any port, of the nodes other
\* than the tail and over the Train/Label subscriptions of the tail; it is
\* the apply subscribers of the tail that are left out of the traversal.
C24_TailApplyExcluded ==
    res.op = "accept"
    => /\ res.status = "ok"
       /\ Range(res.visits) = Reach(Cut(subs, p.tail, FALSE), {p.head}, {})

C24_Witness ==
    /\ res.op = "accept"
    /\ p.head # p.tail
    /\ \E s \in subs : s.pub = p.tail /\ IsSink(s.port) /\ s.node \in Range(res.visits)
    /\ \E s \in subs : s.pub = p.tail /\ IsApply(s.port) /\ s.node \notin Range(res.visits)

\* C25 (as claimed): visit_path over a graph in which a cycle of
\* subscriptions is reachable from head, the apply subscriptions of the tail
\* left aside, fails with the 'Cyclic flow' assertion.
C25_CycleAsserted ==
    (res.op = "accept" /\ Cyclic(Cut(subs, p.tail, FALSE), p.head))
    => res.status = "Cyclic flow"

\* C30 (as claimed): on an acyclic graph visit_path hands visit_node every
\* node it reaches exactly once, whatever the iteration order of the
\* subscriber sets.
C30_VisitedOnce ==
    (res.op = "accept" /\ ~ Cyclic(subs, p.head))
    => /\ res.status = "ok"
       /\ \A i \in DOMAIN res.visits, j \in DOMAIN res.visits :
             res.visits[i] = res.visits[j] => i = j

(***************************************************************************)
(* Properties of the crossvalidated composition.                           *)
(***************************************************************************)
\* the calls of the given method made so far, in their order
Made(call) == SelectSeq(folding.calls, LAMBDA c : c.call = call)

\* the splitter's train and label ports and the two forks are subscribed to
\* the train and label paths of the head segment
Wired ==
    /\ nodes[folding.features] = nodes[folding.splitter]
    /\ nodes[folding.labels] = nodes[folding.splitter]
    /\ Cardinality({folding.splitter, folding.features, folding.labels}) = 3
    /\ subs = {Subscription(folding.head.train, 0, folding.splitter, Train),
               Subscription(folding.head.label, 0, folding.splitter, Label),
               Subscription(folding.head.train, 0, folding.features, Apply(0)),
               Subscription(folding.head.label, 0, folding.labels, Apply(0))}

\* C29: compose creates the splitter with szin 1 and szout 2n, and has its
\* train/label ports and the two forks wired to the head segment before any
\* fold is built; fold is called with k = 0, 1, ..., n-1 in ascending order,
\* n times when compose returns, each time with an inner segment expanded for
\* that call and shared with no other fold and not with the builder;
\* builder.build() is called exactly once, as the last call, also when n = 0.
C29_Compose ==
    /\ folding.splitter # None => nodes[folding.splitter] = Worker(1, 2 * folding.nsplits)
    /\ (folding.calls # <<>> \/ folding.pc = "fold") => Wired
    /\ Len(Made("fold")) <= folding.nsplits
    /\ \A i \in DOMAIN Made("fold") : Made("fold")[i].fold = i - 1
    /\ \A i \in DOMAIN folding.calls, j \in DOMAIN folding.calls :
          (i < j /\ folding.calls[j].call # "build")
          => /\ folding.calls[i].inner \cap folding.calls[j].inner = {}
             /\ folding.calls[j].inner # {}
    /\ \A i \in DOMAIN folding.calls :
          folding.calls[i].inner \cap {folding.head.apply, folding.head.train, folding.head.label,
                                       folding.splitter, folding.features, folding.labels} = {}
    /\ Len(Made("builder")) <= 1
    /\ IF folding.pc = "done"
       THEN /\ Len(Made("fold")) = folding.nsplits
            /\ Len(Made("build")) = 1
            /\ Last(folding.calls).call = "build"
            /\ Last(folding.calls).inner = Made("builder")[1].inner
       ELSE Made("build") = <<>>

C29_Witness ==
    /\ folding.pc = "done"
    /\ folding.nsplits = 3
    /\ folding.width = 2
    /\ Len(folding.calls) = 5

====
